---- MODULE Spec2Model ----
(***************************************************************************)
(* Model of the izas-chatbot-backend search server (src/server.js).        *)
(* Strings whose characters matter (emails, order ids, generation text)    *)
(* are sequences of one-character strings; strings that are only compared  *)
(* whole are TLA+ strings.                                                 *)
(***************************************************************************)
EXTENDS Integers, Sequences, FiniteSets, TLC

VARIABLES
  variant,          \* which server program runs: "master" or "earlier"
  orders,           \* the shop's order store (order source collaborator)
  pc,               \* position of the search request handler
  req,              \* req.body of the request being handled
  emailMatch,       \* handler local: email regex match (or NoMatch)
  orderMatch,       \* handler local: order id regex match (or NoMatch)
  lookup,           \* result of the last getOrderStatus call of the handler
  orderData,        \* handler local: order part of the generation context
  securityWarning,  \* handler local: the "missing piece" signal
  aiIndex,          \* process-wide product index
  faqIndex,         \* process-wide FAQ index
  disk,             \* INDEX_FILE and FAQ_FILE on disk
  boot,             \* "starting" until the load started by app.listen ends
  optimizedQuery,   \* handler local: result of refineQuery
  searchResults,    \* handler local: ranked products
  faqResults,       \* handler local: ranked FAQs
  finalCandidatesList, \* handler local: merged candidates
  context,          \* system prompt of the completion call
  aiContent,        \* handler local: parsed generation output
  response,         \* HTTP response of the request
  upsert,           \* conversation upsert in flight (fire-and-forget)
  prev,             \* order part of the context of the previous request
  fnIn,             \* argument of the function under test (function specs)
  fnOut,            \* its result
  loads,            \* the loadIndexes calls in flight, by caller
  sessions,         \* chat_sessions: the stored conversation of the log session
  logs              \* the /api/chat/log requests in flight, by caller

orderVars == <<emailMatch, orderMatch, lookup, orderData, securityWarning>>
fnVars == <<fnIn, fnOut>>
logVars == <<sessions, logs>>
indexVars == <<aiIndex, faqIndex, disk, boot>>
searchVars == <<optimizedQuery, searchResults, faqResults, finalCandidatesList>>
replyVars == <<context, aiContent, response, upsert>>
vars == <<variant, orders, pc, req, orderVars, indexVars, searchVars, replyVars,
          prev, fnVars, loads, logVars>>

----------------------------------------------------------------------------
(* Character strings *)

\* String.prototype.toLowerCase on the letters the model uses
LowerChar(c) ==
  CASE c = "A" -> "a" [] c = "B" -> "b" [] c = "I" -> "i" [] c = "K" -> "k"
    [] c = "V" -> "v" [] c = "C" -> "c" [] c = "G" -> "g" [] c = "L" -> "l"
    [] c = "M" -> "m" [] c = "X" -> "x" [] OTHER -> c

toLowerCase(s) == [i \in 1..Len(s) |-> LowerChar(s[i])]

IsSpace(c) == c = " "

RECURSIVE trimStart(_)
trimStart(s) == IF s # <<>> /\ IsSpace(Head(s)) THEN trimStart(Tail(s)) ELSE s

RECURSIVE trimEnd(_)
trimEnd(s) ==
  IF s # <<>> /\ IsSpace(s[Len(s)]) THEN trimEnd(SubSeq(s, 1, Len(s) - 1)) ELSE s

\* String.prototype.trim
trim(s) == trimEnd(trimStart(s))

\* index of the first occurrence of character c in s, 0 when absent
RECURSIVE indexOf(_, _)
indexOf(s, c) ==
  IF s = <<>> THEN 0
  ELSE IF Head(s) = c THEN 1
  ELSE LET r == indexOf(Tail(s), c) IN IF r = 0 THEN 0 ELSE r + 1

\* str.replace("#", ""): removes the first "#" only
replaceHash(s) ==
  LET i == indexOf(s, "#") IN
  IF i = 0 THEN s ELSE SubSeq(s, 1, i - 1) \o SubSeq(s, i + 1, Len(s))

----------------------------------------------------------------------------
(* Order lookup *)

NullStr == "null"                       \* JS null / undefined / "" of a field
NullUrl == [base |-> "null", arg |-> NullStr]
NoTracking == [number |-> NullStr, url |-> NullUrl, company |-> NullStr]
NullEmail == <<"null">>                 \* order.email === null

\* the order source answers "name:<cleanId>" with the orders of that name
OrderNamed(store, cleanId) == {o \in store : replaceHash(o.name) = cleanId}

\* fetchGraphQL: net = "ok" resolves with json.data, "nodata" resolves with
\* undefined (json.data missing), "throw" rejects
fetchOrder(store, cleanId, net) ==
  [kind |-> net,
   nodes |-> IF net = "ok" /\ OrderNamed(store, cleanId) # {}
             THEN <<CHOOSE o \in OrderNamed(store, cleanId) : TRUE>>
             ELSE <<>>]

emailsEqual(a, b) == trim(toLowerCase(a)) = trim(toLowerCase(b))

\* a wrong comparison: exact match only after trimming (no lowercasing)
emailsEqualNoLower(a, b) == trim(a) = trim(b)

\* a missing gate: any email is accepted
emailsEqualAlways(a, b) == TRUE

emailGate(a, b) == emailsEqual(a, b)

carrierOf(order) ==
  LET c == IF order.tracking.company # NullStr THEN order.tracking.company
           ELSE IF order.status = "UNFULFILLED" THEN "Pendiente" ELSE "Agencia"
  IN IF c = "0002" THEN "Correos Express" ELSE IF c = "0003" THEN "DHL" ELSE c

\* the upstream URL, whatever the carrier
trackingUrlUpstream(order) == order.tracking.url

trackingUrlOf(order) ==
  LET c == IF order.tracking.company # NullStr THEN order.tracking.company
           ELSE IF order.status = "UNFULFILLED" THEN "Pendiente" ELSE "Agencia"
  IN IF c = "0003" /\ order.tracking.number # NullStr
     THEN [base |-> "dhl", arg |-> order.tracking.number]
     ELSE order.tracking.url

orderFields(order) ==
  [id |-> order.name, status |-> order.status,
   trackingNumber |-> IF order.tracking.number # NullStr
                      THEN order.tracking.number ELSE "N/A",
   trackingUrl |-> trackingUrlOf(order), carrier |-> carrierOf(order),
   items |-> order.items, price |-> order.price]

getOrderStatus(orderId, userEmail, store, net) ==
  LET cleanId == trim(replaceHash(orderId))
      data == fetchOrder(store, cleanId, net)
  IN IF data.kind = "throw" THEN [found |-> FALSE, reason |-> "error"]
     ELSE IF Len(data.nodes) = 0 THEN [found |-> FALSE, reason |-> "not_found"]
     ELSE LET order == data.nodes[1] IN
          IF order.email = NullEmail THEN [found |-> FALSE, reason |-> "error"]
          ELSE IF ~emailGate(order.email, userEmail)
               THEN [found |-> FALSE, reason |-> "email_mismatch"]
               ELSE [found |-> TRUE, data |-> orderFields(order)]

----------------------------------------------------------------------------
(* Inputs of the order lookup *)

MaxPad == 1                              \* spaces around an email

Letters == {"a", "A", "b"}
EmailCores == {<<x, y>> : x \in Letters, y \in Letters}
Spaces(n) == [i \in 1..n |-> " "]
PaddedEmails ==
  {Spaces(l) \o c \o Spaces(r) : c \in EmailCores, l \in 0..MaxPad, r \in 0..MaxPad}

Id1 == <<"1", "0", "0", "1">>
Id2 == <<"1", "0", "0", "2">>
OrderIdArgs == {Id1, <<"#">> \o Id1, Id2}

Trackings ==
  {NoTracking,
   [number |-> "T1", url |-> [base |-> "upstream", arg |-> "u1"], company |-> "0003"],
   [number |-> "T1", url |-> [base |-> "upstream", arg |-> "u1"], company |-> "0002"]}

\* an order of the store: name "#1001", with the given email and tracking
Order1(email, tracking) ==
  [name |-> <<"#">> \o Id1, email |-> email,
   status |-> IF tracking = NoTracking THEN "UNFULFILLED" ELSE "FULFILLED",
   tracking |-> tracking, items |-> "1x Naluns", price |-> "59.95"]

NetOutcomes == {"ok", "nodata", "throw"}

NoMatch == <<"nomatch">>
NoReq ==
  [q |-> <<>>, hasHistory |-> FALSE, history |-> <<>>, hasVisible |-> FALSE,
   visible_ids |-> <<>>]
NoLookup == [found |-> FALSE, reason |-> "none"]
NoOrderData == [kind |-> "none"]
NoFn == [op |-> "none"]

NoQuery == [text |-> <<>>, vector |-> <<0, 0>>]
NoContext == [datos |-> NullStr, pedido |-> NoOrderData, prods |-> <<>>]
NoContent == [k |-> "none"]
NoResponse == [status |-> 0]
NoUpsert == [state |-> "none"]
NoPrev == [set |-> FALSE]

\* who calls loadIndexes: the app.listen callback and the handlers of
\* requests in flight
Callers == {"startup", "request1", "request2"}

\* a caller that is not in loadIndexes: products and fetches are the locals
\* of getAllProducts, k the position of the for loop that awaits
NoLoad == [pc |-> "none", products |-> <<>>, fetches |-> 0, k |-> 0]
NoLoads == [c \in Callers |-> NoLoad]

\* who posts to /api/chat/log
LogCallers == {"log1", "log2"}

\* a log caller without a request in flight: n counts its requests, history
\* is the local of the handler, read and write are what the persistence
\* collaborator answered
NoLog == [pc |-> "none", n |-> 0, history |-> <<>>, read |-> "none",
          write |-> "none", response |-> NoResponse]
NoLogs == [c \in LogCallers |-> NoLog]

\* no row of the log session in chat_sessions
NoSession == [exists |-> FALSE, conversation |-> <<>>]

HandlerIdle ==
  /\ loads = NoLoads
  /\ logs = NoLogs /\ sessions = NoSession
  /\ req = NoReq
  /\ emailMatch = NoMatch /\ orderMatch = NoMatch
  /\ lookup = NoLookup /\ orderData = NoOrderData /\ securityWarning = NullStr
  /\ optimizedQuery = NoQuery /\ searchResults = <<>> /\ faqResults = <<>>
  /\ finalCandidatesList = <<>>
  /\ context = NoContext /\ aiContent = NoContent /\ response = NoResponse
  /\ upsert = NoUpsert /\ prev = NoPrev

NoDisk == [index |-> "absent", items |-> <<>>, faq |-> "absent"]
IndexEmpty == aiIndex = <<>> /\ faqIndex = <<>> /\ disk = NoDisk /\ boot = "up"

----------------------------------------------------------------------------
(* getOrderStatus as a function: SpecLookup *)

InitLookup ==
  /\ variant = "master"
  /\ pc = "fn"
  /\ HandlerIdle /\ IndexEmpty
  /\ \E stored \in PaddedEmails \cup {NullEmail}, t \in Trackings :
       orders = {Order1(stored, t)}
  /\ \E id \in OrderIdArgs, e \in PaddedEmails, net \in NetOutcomes :
       fnIn = [op |-> "getOrderStatus", orderId |-> id, userEmail |-> e, net |-> net]
  /\ fnOut = NoLookup

CallGetOrderStatus ==
  /\ pc = "fn" /\ fnIn.op = "getOrderStatus"
  /\ fnOut' = getOrderStatus(fnIn.orderId, fnIn.userEmail, orders, fnIn.net)
  /\ pc' = "fn_done"
  /\ UNCHANGED <<variant, orders, req, orderVars, indexVars, searchVars,
                 replyVars, prev, fnIn, loads, logVars>>

NextLookup == CallGetOrderStatus

SpecLookup == InitLookup /\ [][NextLookup]_vars

\* the record the order source returned to the call, if any
LookupRecords ==
  IF fnIn.net = "ok" THEN OrderNamed(orders, trim(replaceHash(fnIn.orderId))) ELSE {}

\* a and b are the same string up to letter case and surrounding spaces:
\* some window of a and some window of b, outside of which there are only
\* spaces, agree position by position up to case
SameUpToCaseAndPadding(a, b) ==
  \E i \in 1..Len(a) + 1, j \in 0..Len(a), k \in 1..Len(b) + 1 :
    /\ i <= j + 1
    /\ k + (j - i) <= Len(b)
    /\ \A n \in 1..Len(a) : (n < i \/ n > j) => a[n] = " "
    /\ \A n \in 1..Len(b) : (n < k \/ n > k + (j - i)) => b[n] = " "
    /\ \A n \in 0..(j - i) :
         \/ a[i + n] = b[k + n]
         \/ {a[i + n], b[k + n]} = {"a", "A"}
         \/ {a[i + n], b[k + n]} = {"b", "B"}

\* a and b have the same length and differ in exactly one position, by a
\* letter that is another letter also when case is ignored
DiffersByOneCharacter(a, b) ==
  /\ Len(a) = Len(b)
  /\ \E n \in 1..Len(a) :
       /\ a[n] # " " /\ b[n] # " "
       /\ {a[n], b[n]} \notin {{"a", "A"}, {"b", "B"}, {a[n]}}
       /\ \A m \in 1..Len(a) : m # n => a[m] = b[m]

\* C9: getOrderStatus, for a lookup that the order source answered: an email
\* that differs from the stored one only in letter case or surrounding
\* whitespace gives found=true; an email that differs by one character gives
\* found=false with reason email_mismatch; an order id with no record gives
\* found=false with reason not_found; a found=false result has no data field.
C9_LookupResult ==
  pc = "fn_done" /\ fnIn.op = "getOrderStatus" =>
    /\ \A o \in LookupRecords :
         /\ o.email # NullEmail /\ SameUpToCaseAndPadding(o.email, fnIn.userEmail)
              => fnOut.found
         /\ o.email # NullEmail /\ DiffersByOneCharacter(o.email, fnIn.userEmail)
              => ~fnOut.found /\ fnOut.reason = "email_mismatch"
    /\ (fnIn.net # "throw" /\ LookupRecords = {})
         => ~fnOut.found /\ fnOut.reason = "not_found"
    /\ ~fnOut.found => "data" \notin DOMAIN fnOut
    /\ fnOut.found => "reason" \notin DOMAIN fnOut

\* C9 witness: a stored email with other case and padding was accepted
C9_Witness ==
  /\ pc = "fn_done" /\ fnIn.op = "getOrderStatus" /\ fnOut.found
  /\ \E o \in LookupRecords : o.email # fnIn.userEmail
  /\ fnIn.userEmail # trim(fnIn.userEmail)

----------------------------------------------------------------------------
(* Ranking *)

TopKProducts == 8
TopKFaqs == 2
CandidateCap == 10
MinKeywordLen == 3
\* scores are in hundredths: vector components are in tenths
KeywordBoost == 30
VersionBoost == 40
VersionPenalty == 30

RECURSIVE dotFrom(_, _, _)
dotFrom(a, b, i) == IF i > Len(a) THEN 0 ELSE a[i] * b[i] + dotFrom(a, b, i + 1)

cosineSimilarity(a, b) == dotFrom(a, b, 1)

\* String.prototype.includes
includes(hay, needle) ==
  \E i \in 1..(Len(hay) - Len(needle) + 1) :
    SubSeq(hay, i, i + Len(needle) - 1) = needle

\* String.prototype.split(" ")
RECURSIVE splitSpace(_, _)
splitSpace(s, cur) ==
  IF s = <<>> THEN <<cur>>
  ELSE IF Head(s) = " " THEN <<cur>> \o splitSpace(Tail(s), <<>>)
  ELSE splitSpace(Tail(s), Append(cur, Head(s)))

split(s) == splitSpace(s, <<>>)

IsDigit(c) == c \in {"0", "1", "2", "3", "4", "5", "6", "7", "8", "9"}

\* a whole word matching v\d+ | ii | iii (the word is already lowercased)
IsVersionWord(w) ==
  \/ Len(w) >= 2 /\ w[1] = "v" /\ \A i \in 2..Len(w) : IsDigit(w[i])
  \/ w = <<"i", "i">>
  \/ w = <<"i", "i", "i">>

RECURSIVE firstVersion(_)
firstVersion(ws) ==
  IF ws = <<>> THEN NoMatch
  ELSE IF IsVersionWord(toLowerCase(Head(ws))) THEN toLowerCase(Head(ws))
  ELSE firstVersion(Tail(ws))

\* a wrong match: no version is ever found
targetVersionNone(text) == NoMatch

\* optimizedQuery.match(/\b(v\d+|ii|iii)\b/i), lowercased
targetVersionOf(text) == firstVersion(split(text))

\* a wrong test: no keyword ever matches
keywordHitNever(text, title) == FALSE

keywordHit(text, title) ==
  LET titleLower == toLowerCase(title)
      queryLower == trim(toLowerCase(text))
      kws == split(queryLower)
  IN \E i \in 1..Len(kws) :
       Len(kws[i]) > MinKeywordLen /\ includes(titleLower, kws[i])

\* the score of one indexed product (master: lines 943-947)
adjustedScore(p, query) ==
  LET tv == targetVersionOf(query.text) IN
  cosineSimilarity(query.vector, p.embedding)
  + (IF keywordHit(query.text, p.title) THEN KeywordBoost ELSE 0)
  + (IF tv = NoMatch THEN 0
     ELSE IF includes(toLowerCase(p.title), tv) THEN VersionBoost
     ELSE 0 - VersionPenalty)

\* the score of the earlier variant: similarity only
plainScore(p, query) == cosineSimilarity(query.vector, p.embedding)

scoreOf(v, p, query) ==
  IF v = "master" THEN adjustedScore(p, query) ELSE plainScore(p, query)

\* Array.prototype.sort((a, b) => b.score - a.score): stable, descending
RECURSIVE insertDesc(_, _)
insertDesc(sorted, x) ==
  IF sorted = <<>> THEN <<x>>
  ELSE IF Head(sorted).score >= x.score
       THEN <<Head(sorted)>> \o insertDesc(Tail(sorted), x)
       ELSE <<x>> \o sorted

\* a wrong comparator: ascending
RECURSIVE insertAsc(_, _)
insertAsc(sorted, x) ==
  IF sorted = <<>> THEN <<x>>
  ELSE IF Head(sorted).score <= x.score
       THEN <<Head(sorted)>> \o insertAsc(Tail(sorted), x)
       ELSE <<x>> \o sorted

insertSorted(sorted, x) == insertDesc(sorted, x)

RECURSIVE sortFrom(_, _, _)
sortFrom(s, i, acc) ==
  IF i > Len(s) THEN acc ELSE sortFrom(s, i + 1, insertSorted(acc, s[i]))

sortByScore(s) == sortFrom(s, 1, <<>>)

\* Array.prototype.slice(0, n)
slice(s, n) == SubSeq(s, 1, IF Len(s) < n THEN Len(s) ELSE n)

withScore(p, sc) ==
  [id |-> p.id, title |-> p.title, embedding |-> p.embedding, image |-> p.image,
   variants |-> p.variants, score |-> sc]

rankProducts(v, index, query) ==
  slice(sortByScore([i \in 1..Len(index) |->
                       withScore(index[i], scoreOf(v, index[i], query))]),
        TopKProducts)

rankFaqs(index, query) ==
  slice(sortByScore([i \in 1..Len(index) |->
                       [question |-> index[i].question,
                        embedding |-> index[i].embedding,
                        score |-> cosineSimilarity(query.vector, index[i].embedding)]]),
        TopKFaqs)

----------------------------------------------------------------------------
(* Candidate merging *)

\* String(x) of a client-supplied id: the number 7 and the string "7" give "7"
String(x) == x.v

\* visible_ids.map(String).includes(String(p.id))
isVisible(visible_ids, p) ==
  \E i \in 1..Len(visible_ids) : String(visible_ids[i]) = p.id

RECURSIVE filterVisible(_, _)
filterVisible(index, visible_ids) ==
  IF index = <<>> THEN <<>>
  ELSE (IF isVisible(visible_ids, Head(index)) THEN <<Head(index)>> ELSE <<>>)
       \o filterVisible(Tail(index), visible_ids)

\* Map.prototype.set: a known key keeps its position and takes the new value
mapSet(m, p) ==
  IF \E i \in 1..Len(m) : m[i].id = p.id
  THEN [i \in 1..Len(m) |-> IF m[i].id = p.id THEN p ELSE m[i]]
  ELSE Append(m, p)

\* a wrong set: always appends
mapSetAppend(m, p) == Append(m, p)

setCandidate(m, p) == mapSet(m, p)

RECURSIVE setAll(_, _)
setAll(m, ps) == IF ps = <<>> THEN m ELSE setAll(setCandidate(m, Head(ps)), Tail(ps))

\* combinedCandidates.size < 10
belowCap(m, cap) == Len(m) < cap

RECURSIVE setWhileBelow(_, _, _)
setWhileBelow(m, ps, cap) ==
  IF ps = <<>> THEN m
  ELSE setWhileBelow(IF belowCap(m, cap) THEN setCandidate(m, Head(ps)) ELSE m,
                     Tail(ps), cap)

\* lines 953-957: Array.from(combinedCandidates.values())
combinedCandidates(index, hasVisible, visible_ids, results, cap) ==
  setWhileBelow(IF hasVisible THEN setAll(<<>>, filterVisible(index, visible_ids))
                ELSE <<>>,
                results, cap)

----------------------------------------------------------------------------
(* Generation output: text, JSON extraction, materialization *)

\* The generation text is a sequence of tokens: the braces, a commentary
\* character (any character other than a brace), a JSON literal that is not
\* an object (null, or a number / string / array / boolean), and the members
\* an object may carry.
LB == [t |-> "{"]
RB == [t |-> "}"]
CM == [t |-> "c"]
LitNull == [t |-> "lit", lv |-> "null"]
LitPrim == [t |-> "lit", lv |-> "prim"]
ReplyTok(echo) == [t |-> "reply", echo |-> echo]
ProductsTok(payload) == [t |-> "products", pv |-> payload]
CategoryTok == [t |-> "category"]

IsMember(tok) == tok.t \in {"reply", "products", "category"}

Absent == [k |-> "absent"]

\* the value of the last member of kind t in ms, Absent when there is none
RECURSIVE lastMember(_, _)
lastMember(ms, t) ==
  IF ms = <<>> THEN Absent
  ELSE IF ms[Len(ms)].t = t THEN [k |-> "present", tok |-> ms[Len(ms)]]
  ELSE lastMember(SubSeq(ms, 1, Len(ms) - 1), t)

objectOf(ms) ==
  LET r == lastMember(ms, "reply")
      p == lastMember(ms, "products")
      c == lastMember(ms, "category")
  IN [k |-> "obj",
      hasReply |-> r.k = "present",
      echo |-> IF r.k = "present" THEN r.tok.echo ELSE FALSE,
      products |-> IF p.k = "present" THEN p.tok.pv ELSE Absent,
      category |-> IF c.k = "present" THEN "LOGISTICA" ELSE NullStr]

\* JSON.parse: ok = FALSE is the SyntaxError
JSONparse(s) ==
  IF Len(s) >= 2 /\ s[1] = LB /\ s[Len(s)] = RB
     /\ \A i \in 2..(Len(s) - 1) : IsMember(s[i])
  THEN [ok |-> TRUE, val |-> objectOf(SubSeq(s, 2, Len(s) - 1))]
  ELSE IF s = <<LitNull>> THEN [ok |-> TRUE, val |-> [k |-> "null"]]
  ELSE IF s = <<LitPrim>> THEN [ok |-> TRUE, val |-> [k |-> "prim"]]
  ELSE [ok |-> FALSE, val |-> NoContent]

RECURSIVE lastIndexOf(_, _)
lastIndexOf(s, c) ==
  IF s = <<>> THEN 0
  ELSE IF s[Len(s)] = c THEN Len(s)
  ELSE lastIndexOf(SubSeq(s, 1, Len(s) - 1), c)

\* str.substring(first, last + 1) with 1-based first and last; substring
\* swaps its arguments when the first is the larger one
substring(s, first, last) ==
  IF first <= last THEN SubSeq(s, first, last) ELSE SubSeq(s, last + 1, first - 1)

\* lines 980-987
extractJSON(str) ==
  LET first == indexOf(str, LB)
      last == lastIndexOf(str, RB)
  IN IF first # 0 /\ last # 0 THEN JSONparse(substring(str, first, last))
     ELSE JSONparse(str)

\* aiContent = extractJSON(rawContent), line 991
extractStep(str) == extractJSON(str)

FallbackContent ==
  [k |-> "obj", hasReply |-> TRUE, echo |-> FALSE,
   products |-> [k |-> "list", items |-> <<>>], category |-> "ERROR_JSON"]

\* lines 989-995 (master): raw.isNull is a null message content, on which
\* str.indexOf throws inside the try
parseContentMaster(raw) ==
  IF raw.isNull THEN FallbackContent
  ELSE LET r == extractStep(raw.text) IN IF r.ok THEN r.val ELSE FallbackContent

\* line 627 (earlier): JSON.parse(content), uncaught here; JSON.parse(null)
\* is null
parseContentEarlier(raw) ==
  IF raw.isNull THEN [ok |-> TRUE, val |-> [k |-> "null"]] ELSE JSONparse(raw.text)

DefaultImage == "no-image.jpg"

safeProduct(original) ==
  [original EXCEPT !.image = IF @ = NullStr THEN DefaultImage ELSE @]

findVariant(p, variant_id) ==
  LET hits == {i \in 1..Len(p.variants) : p.variants[i].id = variant_id}
  IN IF hits = {} THEN 0 ELSE CHOOSE i \in hits : \A j \in hits : i <= j

\* the record one product reference maps to (lines 1004-1024)
displayOf(p, ref) ==
  LET vi == IF ref.k = "obj" /\ ref.variant # 0 THEN findVariant(p, ref.variant) ELSE 0
  IN [product |-> p,
      displayImage |-> IF vi # 0 /\ p.variants[vi].image # NullStr
                       THEN p.variants[vi].image ELSE p.image,
      displayUrlParams |-> IF vi # 0 THEN p.variants[vi].id ELSE 0]

findCandidate(list, ref) ==
  LET hits == {i \in 1..Len(list) : ref.k # "null" /\ list[i].id = ref.v}
  IN IF hits = {} THEN 0 ELSE CHOOSE i \in hits : \A j \in hits : i <= j

\* master, lines 997-1025: map + filter(Boolean), no memory of seen ids
RECURSIVE materializeMaster(_, _)
materializeMaster(list, refs) ==
  IF refs = <<>> THEN <<>>
  ELSE LET i == findCandidate(list, Head(refs)) IN
       (IF i = 0 THEN <<>> ELSE <<displayOf(safeProduct(list[i]), Head(refs))>>)
       \o materializeMaster(list, Tail(refs))

\* earlier, lines 632-646: seenIds drops a repeated product
RECURSIVE materializeEarlier(_, _, _)
materializeEarlier(list, refs, seenIds) ==
  IF refs = <<>> THEN <<>>
  ELSE LET i == findCandidate(list, Head(refs)) IN
       IF i = 0 \/ list[i].id \in seenIds
       THEN materializeEarlier(list, Tail(refs), seenIds)
       ELSE <<displayOf(list[i], Head(refs))>>
            \o materializeEarlier(list, Tail(refs), seenIds \cup {list[i].id})

materialize(v, list, refs) ==
  IF v = "master" THEN materializeMaster(list, refs)
  ELSE materializeEarlier(list, refs, {})

\* a wrong lookup: the whole index
lookupListIndex(candidates, index) == index

\* the list the lookups of the materializer run on
lookupList(candidates, index) == candidates

\* (aiContent.products || []).map(...): what the expression does for each
\* shape of aiContent and of its products member
finalProductsOf(v, content, candidates, index) ==
  IF content.k = "null" THEN [threw |-> TRUE, products |-> <<>>]
  ELSE IF content.k = "prim" THEN [threw |-> FALSE, products |-> <<>>]
  ELSE IF content.products.k \in {"absent", "null", "falsy"}
       THEN [threw |-> FALSE, products |-> <<>>]
  ELSE IF content.products.k = "scalar" THEN [threw |-> TRUE, products |-> <<>>]
  ELSE IF \E i \in 1..Len(content.products.items) :
            content.products.items[i].k = "null"
       THEN [threw |-> TRUE, products |-> <<>>]
  ELSE [threw |-> FALSE,
        products |-> materialize(v, lookupList(candidates, index),
                                 content.products.items)]

----------------------------------------------------------------------------
(* Order detection of the search handler *)

\* A message is a sequence of words. A word carries what the two regular
\* expressions find in it: an email ([\w.-]+@[\w.-]+\.\w+) and a run of four
\* or more digits (#?(\d{4,})); NoMatch when it has none.
Word(email, digits) == [email |-> email, digits |-> digits]

RECURSIVE firstEmail(_)
firstEmail(text) ==
  IF text = <<>> THEN NoMatch
  ELSE IF Head(text).email # NoMatch THEN Head(text).email
  ELSE firstEmail(Tail(text))

RECURSIVE firstDigits(_)
firstDigits(text) ==
  IF text = <<>> THEN NoMatch
  ELSE IF Head(text).digits # NoMatch THEN Head(text).digits
  ELSE firstDigits(Tail(text))

\* the turns joined oldest first
RECURSIVE hTextForward(_)
hTextForward(history) ==
  IF history = <<>> THEN <<>>
  ELSE Head(history).content \o hTextForward(Tail(history))

\* [...history].reverse().map(h => h.content).join(" ")
RECURSIVE hTextOf(_)
hTextOf(history) ==
  IF history = <<>> THEN <<>>
  ELSE history[Len(history)].content \o hTextOf(SubSeq(history, 1, Len(history) - 1))

\* lines 919-924
emailMatchOf(r) ==
  IF firstEmail(r.q) # NoMatch THEN firstEmail(r.q)
  ELSE IF r.hasHistory THEN firstEmail(hTextOf(r.history)) ELSE NoMatch

orderMatchOf(r) ==
  IF firstDigits(r.q) # NoMatch THEN firstDigits(r.q)
  ELSE IF r.hasHistory THEN firstDigits(hTextOf(r.history)) ELSE NoMatch

\* the order part of the prompt, master (line 928)
orderDataMaster(res) ==
  IF res.found
  THEN [kind |-> "found", id |-> res.data.id, status |-> res.data.status,
        trackingNumber |-> res.data.trackingNumber,
        trackingUrl |-> res.data.trackingUrl]
  ELSE [kind |-> "error", msg |-> "Error pedido."]

\* the order part of the prompt, earlier variant (lines 495-508)
orderDataEarlier(res) ==
  IF res.found
  THEN [kind |-> "found", id |-> res.data.id, status |-> res.data.status,
        trackingNumber |-> res.data.trackingNumber,
        trackingUrl |-> IF res.data.trackingUrl = NullUrl
                        THEN [base |-> "text", arg |-> "No disponible"]
                        ELSE res.data.trackingUrl,
        carrier |-> res.data.carrier, items |-> res.data.items,
        price |-> res.data.price]
  ELSE IF res.reason = "email_mismatch"
       THEN [kind |-> "error", msg |-> "ERROR SEGURIDAD: El email no coincide"]
       ELSE [kind |-> "error", msg |-> "ERROR: No existe ningun pedido"]

orderDataOf(v, res) ==
  IF v = "master" THEN orderDataMaster(res) ELSE orderDataEarlier(res)

\* a wrong signal: the two names exchanged
securityWarningSwapped(v, om, em) ==
  IF v # "master" THEN NullStr
  ELSE IF om # NoMatch /\ em # NoMatch THEN NullStr
  ELSE IF om # NoMatch THEN "FALTA_PEDIDO_ID"
  ELSE IF em # NoMatch THEN "FALTA_EMAIL"
  ELSE NullStr

\* line 929 (master only)
securityWarningOf(v, om, em) ==
  IF v # "master" THEN NullStr
  ELSE IF om # NoMatch /\ em # NoMatch THEN NullStr
  ELSE IF om # NoMatch THEN "FALTA_EMAIL"
  ELSE IF em # NoMatch THEN "FALTA_PEDIDO_ID"
  ELSE NullStr

----------------------------------------------------------------------------
(* The catalog, the FAQ file and the index load *)

CatalogSize == 12                    \* products of the shop
PageSize == 6                        \* products per catalog page

Kona == <<"k", "o", "n", "a">>
Nalu == <<"n", "a", "l", "u">>
TitleOf(i) ==
  CASE i % 4 = 0 -> Kona
    [] i % 4 = 1 -> <<"K", "o", "n", "a", " ", "V", "2">>
    [] i % 4 = 2 -> Nalu \o <<" ", "i", "i">>
    [] OTHER -> Nalu

\* the embedding the embedding collaborator gives a product text
EmbOf(i) == <<(i % 3) * 5, ((i \div 3) % 3) * 5>>

VariantsOf(i) ==
  <<[id |-> 100 + i, image |-> IF i % 2 = 0 THEN "variant.jpg" ELSE NullStr,
     inventoryQuantity |-> i % 4, availableForSale |-> i % 4 # 0]>>

Product(i) ==
  [id |-> i, title |-> TitleOf(i), embedding |-> EmbOf(i),
   image |-> IF i % 3 = 0 THEN NullStr ELSE "product.jpg",
   variants |-> VariantsOf(i)]

Catalog == [i \in 1..CatalogSize |-> Product(i)]

FaqList ==
  <<[question |-> "envios", embedding |-> <<10, 0>>],
    [question |-> "devoluciones", embedding |-> <<5, 5>>],
    [question |-> "tallas", embedding |-> <<0, 10>>]>>

Min(a, b) == IF a < b THEN a ELSE b

\* getAllProducts: the products of the pages fetched before a page came back
\* without data (lines 783-796)
productsOfPages(pages) == SubSeq(Catalog, 1, Min(CatalogSize, pages * PageSize))

TotalPages == (CatalogSize + PageSize - 1) \div PageSize

\* What the collaborators do during one loadIndexes call: how many catalog
\* pages answer with data, whether a network call rejects (a page fetch or
\* the last embedding call of the product loop), whether the snapshot write
\* succeeds.
LoadOutcomes ==
  [pages : 0..TotalPages, fail : {"none", "fetch", "embed", "faqEmbed"},
   writeOk : BOOLEAN]

\* loadIndexes, lines 876-889 (master) and 349-387 (earlier), as one step.
\* Gives the index, the FAQ index, the disk and whether the call rejected.
loadIndexes(v, idx, faqs, dsk, o) ==
  LET idx1 == IF dsk.index = "written" THEN dsk.items
              ELSE IF dsk.index = "corrupt" /\ v # "master" THEN <<>>
              ELSE idx
      rebuild == idx1 = <<>>
      products == productsOfPages(o.pages)
      fetchThrew == rebuild /\ o.fail = "fetch"
      embedThrew == rebuild /\ o.fail = "embed" /\ products # <<>>
      idx2 == IF ~rebuild \/ fetchThrew THEN idx1
              ELSE IF embedThrew THEN SubSeq(products, 1, Len(products) - 1)
              ELSE products
      written == rebuild /\ ~fetchThrew /\ ~embedThrew /\ o.writeOk
      dsk2 == IF written THEN [dsk EXCEPT !.index = "written", !.items = idx2]
              ELSE dsk
      threwEarly == fetchThrew \/ embedThrew
      faqThrew == ~threwEarly /\ (dsk.faq = "corrupt"
                                  \/ (dsk.faq = "ok" /\ o.fail = "faqEmbed"))
      faqs2 == IF threwEarly \/ dsk.faq \in {"absent", "corrupt"} THEN faqs
               ELSE IF o.fail = "faqEmbed" THEN SubSeq(FaqList, 1, Len(FaqList) - 1)
               ELSE FaqList
  IN [aiIndex |-> idx2, faqIndex |-> faqs2, disk |-> dsk2,
      threw |-> threwEarly \/ faqThrew]

Disks ==
  {[index |-> "absent", items |-> <<>>, faq |-> f] : f \in {"absent", "ok"}}
  \cup {[index |-> "corrupt", items |-> <<>>, faq |-> "ok"],
        [index |-> "written", items |-> Catalog, faq |-> "ok"]}

----------------------------------------------------------------------------
(* The search request handler, app.post("/api/ai/search") *)

BadRequest == [status |-> 400]
InternalError == [status |-> 500]

idsOf(list) == [i \in 1..Len(list) |-> list[i].id]

contextOf(sw, od, list) ==
  [datos |-> IF sw = NullStr THEN "OK" ELSE sw, pedido |-> od, prods |-> idsOf(list)]

\* the handler ends with the generic error response (the outer catch)
Fail500 == response' = InternalError /\ pc' = "done"

\* a wrong test: no request counts as lacking its query
missingQueryNever(q) == FALSE

\* !q (line 915)
missingQuery(q) == q = <<>>

\* Request arrival up to the first await: validation and order detection
\* (lines 913-929)
Receive(Qs, Hs, Vs) ==
  /\ pc = "idle"
  /\ \E q \in Qs, h \in Hs, vis \in Vs :
       LET r == [q |-> q, hasHistory |-> h.has, history |-> h.turns,
                 hasVisible |-> vis.has, visible_ids |-> vis.ids]
           em == emailMatchOf(r)
           om == orderMatchOf(r)
       IN /\ req' = r
          /\ IF missingQuery(q)
             THEN /\ response' = BadRequest /\ pc' = "done"
                  /\ UNCHANGED <<emailMatch, orderMatch, securityWarning>>
             ELSE /\ emailMatch' = em /\ orderMatch' = om
                  /\ securityWarning' = securityWarningOf(variant, om, em)
                  /\ pc' = IF om # NoMatch /\ em # NoMatch THEN "order" ELSE "refine"
                  /\ UNCHANGED response
  /\ UNCHANGED <<variant, orders, lookup, orderData, indexVars, searchVars,
                 context, aiContent, upsert, prev, fnVars, loads, logVars>>

\* The handler has answered and its locals are gone. keepPrev: the order
\* part of its prompt is remembered for comparison with the next request.
HandlerReturns(keepPrev) ==
  /\ pc = "done"
  /\ pc' = "idle"
  /\ prev' = IF keepPrev /\ lookup # NoLookup
             THEN [set |-> TRUE, order |-> orderMatch, email |-> emailMatch,
                   pedido |-> orderData]
             ELSE NoPrev
  /\ req' = NoReq
  /\ emailMatch' = NoMatch /\ orderMatch' = NoMatch
  /\ lookup' = NoLookup /\ orderData' = NoOrderData /\ securityWarning' = NullStr
  /\ optimizedQuery' = NoQuery /\ searchResults' = <<>> /\ faqResults' = <<>>
  /\ finalCandidatesList' = <<>>
  /\ context' = NoContext /\ aiContent' = NoContent /\ response' = NoResponse
  /\ UNCHANGED <<variant, orders, indexVars, upsert, fnVars, loads, logVars>>

\* await getOrderStatus(...) resolves (lines 926-928)
OrderLookupResolves ==
  /\ pc = "order"
  /\ \E net \in NetOutcomes :
       LET res == getOrderStatus(orderMatch, emailMatch, orders, net) IN
       /\ lookup' = res
       /\ orderData' = orderDataOf(variant, res)
  /\ pc' = "refine"
  /\ UNCHANGED <<variant, orders, req, emailMatch, orderMatch, securityWarning,
                 indexVars, searchVars, replyVars, prev, fnVars, loads, logVars>>

\* await refineQuery(...) resolves or rejects; then the emptiness test of
\* line 934
RefineResolves(Texts) ==
  /\ pc = "refine"
  /\ \/ /\ Fail500
        /\ UNCHANGED <<optimizedQuery>>
     \/ /\ \E t \in Texts : optimizedQuery' = [optimizedQuery EXCEPT !.text = t]
        /\ pc' = IF aiIndex = <<>> THEN "load" ELSE "embed"
        /\ UNCHANGED response
  /\ UNCHANGED <<variant, orders, req, orderVars, indexVars, searchResults,
                 faqResults, finalCandidatesList, context, aiContent, upsert,
                 prev, fnVars, loads, logVars>>

\* await loadIndexes() of the request path
LoadResolves(Outcomes) ==
  /\ pc = "load"
  /\ \E o \in Outcomes :
       LET r == loadIndexes(variant, aiIndex, faqIndex, disk, o) IN
       /\ aiIndex' = r.aiIndex /\ faqIndex' = r.faqIndex /\ disk' = r.disk
       /\ IF r.threw THEN Fail500 ELSE pc' = "embed" /\ UNCHANGED response
  /\ UNCHANGED <<variant, orders, req, orderVars, boot, searchVars, context,
                 aiContent, upsert, prev, fnVars, loads, logVars>>

\* the load started by app.listen (line 1054)
StartupLoad(Outcomes) ==
  /\ boot = "starting"
  /\ \E o \in Outcomes :
       LET r == loadIndexes(variant, aiIndex, faqIndex, disk, o) IN
       aiIndex' = r.aiIndex /\ faqIndex' = r.faqIndex /\ disk' = r.disk
  /\ boot' = "up"
  /\ UNCHANGED <<variant, orders, pc, req, orderVars, searchVars, replyVars,
                 prev, fnVars, loads, logVars>>

\* await openai.embeddings.create(...) resolves or rejects; ranking and
\* merging (lines 936-957). The earlier variant has no live stock step: it
\* builds the prompt here, where history.slice throws without a history.
EmbedResolves(Vectors) ==
  /\ pc = "embed"
  /\ \/ /\ Fail500
        /\ UNCHANGED <<searchVars, context>>
     \/ \E vec \in Vectors :
          LET query == [optimizedQuery EXCEPT !.vector = vec]
              results == rankProducts(variant, aiIndex, query)
              list == combinedCandidates(aiIndex, req.hasVisible, req.visible_ids,
                                         results, CandidateCap)
          IN /\ optimizedQuery' = query
             /\ searchResults' = results
             /\ faqResults' = rankFaqs(faqIndex, query)
             /\ finalCandidatesList' = list
             /\ IF variant = "master"
                THEN pc' = "stock" /\ UNCHANGED <<context, response>>
                ELSE IF ~req.hasHistory
                     THEN Fail500 /\ UNCHANGED context
                     ELSE /\ context' = contextOf(securityWarning, orderData, list)
                          /\ pc' = "complete"
                          /\ UNCHANGED response
  /\ UNCHANGED <<variant, orders, req, orderVars, indexVars, aiContent, upsert,
                 prev, fnVars, loads, logVars>>

\* What the catalog answers to the batch lookup of getLiveStockForProducts:
\* the call rejects, resolves without data, or resolves with the nodes of
\* the products whose id passes `has`, each variant with a fresh quantity.
FreshQty == 1
StockOutcomes == {"throw", "nodata", "all", "odd", "none"}

freshVariants(p) ==
  [i \in 1..Len(p.variants) |->
     [id |-> p.variants[i].id, image |-> p.variants[i].image,
      inventoryQuantity |-> FreshQty, availableForSale |-> TRUE]]

hasFreshNode(o, p) == o = "all" \/ (o = "odd" /\ p.id % 2 = 1)

\* a refresh that keeps only the products the lookup has an entry for
getLiveStockOnlyFresh(products, o) ==
  IF products = <<>> \/ o \in {"throw", "nodata"} THEN products
  ELSE LET fresh == SelectSeq(products, LAMBDA p : hasFreshNode(o, p)) IN
       [i \in 1..Len(fresh) |-> [fresh[i] EXCEPT !.variants = freshVariants(fresh[i])]]

\* lines 799-848
getLiveStockForProducts(products, o) ==
  IF products = <<>> \/ o \in {"throw", "nodata"} THEN products
  ELSE [i \in 1..Len(products) |->
          IF hasFreshNode(o, products[i])
          THEN [products[i] EXCEPT !.variants = freshVariants(products[i])]
          ELSE products[i]]

\* await getLiveStockForProducts(...) resolves (master, lines 960-972): the
\* prompt is built and the completion call is made
LiveStockResolves(Outcomes) ==
  /\ pc = "stock"
  /\ \E o \in Outcomes :
       LET list == getLiveStockForProducts(finalCandidatesList, o) IN
       /\ finalCandidatesList' = list
       /\ context' = contextOf(securityWarning, orderData, list)
  /\ pc' = "complete"
  /\ UNCHANGED <<variant, orders, req, orderVars, indexVars, optimizedQuery,
                 searchResults, faqResults, aiContent, response, upsert, prev,
                 fnVars, loads, logVars>>

NullContent == [isNull |-> TRUE, text |-> <<>>]
Content(text) == [isNull |-> FALSE, text |-> text]

\* the parsed generation output; ok = FALSE is an uncaught SyntaxError
parsedOf(v, raw) ==
  IF v = "master" THEN [ok |-> TRUE, val |-> parseContentMaster(raw)]
  ELSE parseContentEarlier(raw)

\* res.json({ text: aiContent.reply, products: finalProducts, ... }): the
\* reply of the generation step may repeat the order part of its prompt
successResponse(content, ctx, products) ==
  [status |-> 200,
   hasText |-> content.k = "obj" /\ content.hasReply,
   order |-> IF content.k = "obj" /\ content.hasReply /\ content.echo
             THEN ctx.pedido ELSE NoOrderData,
   products |-> products]

\* await openai.chat.completions.create(...) resolves or rejects; parsing,
\* materialization, the upsert call and the response (lines 974-1051)
CompletionResolves(Outs) ==
  /\ pc = "complete"
  /\ \/ /\ Fail500
        /\ UNCHANGED <<aiContent, upsert>>
     \/ \E raw \in Outs :
          LET parsed == parsedOf(variant, raw)
              fp == finalProductsOf(variant, parsed.val, finalCandidatesList, aiIndex)
          IN IF ~parsed.ok
             THEN Fail500 /\ UNCHANGED <<aiContent, upsert>>
             ELSE /\ aiContent' = parsed.val
                  /\ IF fp.threw
                     THEN Fail500 /\ UNCHANGED upsert
                     ELSE /\ upsert' = [state |-> "pending"]
                          /\ response' = successResponse(parsed.val, context, fp.products)
                          /\ pc' = "done"
  /\ UNCHANGED <<variant, orders, req, orderVars, indexVars, searchVars, context,
                 prev, fnVars, loads, logVars>>

\* a wrong handler: the outcome of the upsert reaches the response
UpsertSettlesSurfaced ==
  /\ upsert.state = "pending"
  /\ \E s \in {"stored", "failed"} :
       /\ upsert' = [state |-> s]
       /\ response' = IF s = "failed" THEN InternalError ELSE response
  /\ UNCHANGED <<variant, orders, pc, req, orderVars, indexVars, searchVars,
                 context, aiContent, prev, fnVars, loads, logVars>>

\* the promise of the conversation upsert settles (lines 1043-1047)
UpsertSettles ==
  /\ upsert.state = "pending"
  /\ \E s \in {"stored", "failed"} : upsert' = [state |-> s]
  /\ UNCHANGED <<variant, orders, pc, req, orderVars, indexVars, searchVars,
                 context, aiContent, response, prev, fnVars, loads, logVars>>

\* the shop creates, changes or deletes an order between two requests
ShopChanges(Stores) ==
  /\ pc = "idle"
  /\ \E s \in Stores : s # orders /\ orders' = s
  /\ UNCHANGED <<variant, pc, req, orderVars, indexVars, searchVars, replyVars,
                 prev, fnVars, loads, logVars>>

----------------------------------------------------------------------------
(* Requests about orders: SpecOrder *)

MaxQ == 2                           \* words of a message
MaxHist == 1                        \* turns of a history

UserEmailA == <<"A", "b">>
UserEmailB == <<"b", "b">>
StoredEmails == {<<"a", "b">>, <<" ", "A", "b", " ">>}

OrderWords ==
  {Word(UserEmailA, NoMatch), Word(UserEmailB, NoMatch), Word(NoMatch, Id1),
   Word(NoMatch, NoMatch)}

SeqsUpTo(S, n) == UNION {[1..k -> S] : k \in 0..n}

OrderQs == SeqsUpTo(OrderWords, MaxQ)

HistoryWords == {Word(UserEmailA, NoMatch), Word(NoMatch, Id1)}
NoHistory == [has |-> FALSE, turns |-> <<>>]
\* a history whose one turn names the order and the email
BothInHistory ==
  [has |-> TRUE,
   turns |-> <<[content |-> <<Word(NoMatch, Id1), Word(UserEmailA, NoMatch)>>]>>]
OrderHs ==
  {NoHistory, BothInHistory}
  \cup {[has |-> TRUE, turns |-> t] :
          t \in SeqsUpTo({[content |-> <<w>>] : w \in HistoryWords}, MaxHist)}

NoVisible == [has |-> FALSE, ids |-> <<>>]

DhlTracking ==
  [number |-> "T1", url |-> [base |-> "upstream", arg |-> "u1"], company |-> "0003"]

OrderStores ==
  {{}, {Order1(<<"a", "b">>, NoTracking)}, {Order1(<<" ", "A", "b", " ">>, DhlTracking)},
   {Order1(NullEmail, NoTracking)}}

PlainText == Kona
PlainVector == <<10, 0>>

\* generation outputs of the order requests: an object with a reply that
\* repeats the order part of the prompt or not, and a text that is no JSON
OrderOuts ==
  {Content(<<LB, ReplyTok(e), ProductsTok([k |-> "list", items |-> <<>>]), RB>>) :
     e \in BOOLEAN} \cup {Content(<<CM>>)}

Loaded == aiIndex = Catalog /\ faqIndex = FaqList
          /\ disk = [index |-> "written", items |-> Catalog, faq |-> "ok"]
          /\ boot = "up"

InitOrder ==
  /\ variant \in {"master", "earlier"}
  /\ orders \in OrderStores
  /\ pc = "idle"
  /\ HandlerIdle /\ Loaded
  /\ fnIn = NoFn /\ fnOut = NoLookup

ReceiveOrder == Receive(OrderQs, OrderHs, {NoVisible})
ReturnOrder == HandlerReturns(FALSE)
RefineOrder == RefineResolves({PlainText})
EmbedOrder == EmbedResolves({PlainVector})
LiveStockOrder == LiveStockResolves({"nodata"})
CompletionOrder == CompletionResolves(OrderOuts)

NextOrder ==
  \/ ReceiveOrder
  \/ OrderLookupResolves
  \/ RefineOrder
  \/ EmbedOrder
  \/ LiveStockOrder
  \/ CompletionOrder
  \/ UpsertSettles
  \/ ReturnOrder

SpecOrder == InitOrder /\ [][NextOrder]_vars

\* the emails and order ids that occur in the message or the history
WordsOf(r) ==
  {r.q[i] : i \in 1..Len(r.q)}
  \cup UNION {{r.history[j].content[i] : i \in 1..Len(r.history[j].content)} :
                j \in 1..Len(r.history)}

\* the orders of the store that carry the given id and whose email is the
\* given one up to letter case and surrounding whitespace
MatchingOrders(id, email) ==
  {o \in orders : /\ o.name = <<"#">> \o id
                  /\ o.email # NullEmail
                  /\ SameUpToCaseAndPadding(o.email, email)}

\* C1: fields of an order record are in the order part of the prompt, and in
\* the response, only when an order id and an email were both extracted from
\* the message or the history and the store holds an order of that id whose
\* email equals the extracted one up to case and surrounding whitespace; the
\* fields are then those of that order. In every other case neither the
\* prompt nor the response carries a field of an order record.
C1_OrderDataOnlyOnMatch ==
  /\ orderData.kind = "found" =>
       /\ orderMatch # NoMatch /\ emailMatch # NoMatch
       /\ \E w \in WordsOf(req) : w.email = emailMatch
       /\ \E w \in WordsOf(req) : w.digits = orderMatch
       /\ \E o \in MatchingOrders(orderMatch, emailMatch) :
            /\ orderData.id = o.name /\ orderData.status = o.status
            /\ orderData.trackingNumber \in {o.tracking.number, "N/A"}
  /\ context.pedido.kind = "found" => context.pedido = orderData
  /\ (response.status = 200 /\ response.order.kind = "found")
       => response.order = orderData
  /\ response.status \in {400, 500} => DOMAIN response = {"status"}

\* C1 witness: a request answered with the data of an order whose stored
\* email is written differently from the one the user gave
C1_Witness ==
  /\ variant = "master" /\ pc = "done" /\ response.status = 200
  /\ response.order.kind = "found"
  /\ \E o \in orders : o.email # emailMatch /\ orderData.id = o.name

----------------------------------------------------------------------------
(* Two requests with the same identifiers: SpecLeak *)

LeakQs == {<<Word(NoMatch, Id1), Word(e, NoMatch)>> : e \in {UserEmailA, UserEmailB}}
LeakHs == {NoHistory, [has |-> TRUE, turns |-> <<>>]}

InitLeak ==
  /\ variant \in {"master", "earlier"}
  /\ orders \in OrderStores
  /\ pc = "idle"
  /\ HandlerIdle /\ Loaded
  /\ fnIn = NoFn /\ fnOut = NoLookup

ReceiveLeak == Receive(LeakQs, LeakHs, {NoVisible})
ReturnLeak == HandlerReturns(TRUE)
ShopChangesOrders == ShopChanges(OrderStores)

NextLeak ==
  \/ ReceiveLeak
  \/ OrderLookupResolves
  \/ RefineOrder
  \/ EmbedOrder
  \/ LiveStockOrder
  \/ CompletionOrder
  \/ UpsertSettles
  \/ ReturnLeak
  \/ ShopChangesOrders

SpecLeak == InitLeak /\ [][NextLeak]_vars

\* the email matches no order of any store
NonMatching(email) == \A e \in StoredEmails : ~SameUpToCaseAndPadding(e, email)

\* the previous request and this one gave the same order id and the same
\* non-matching email, and this one has made its lookup
SameProbeTwice ==
  /\ prev.set /\ lookup # NoLookup
  /\ prev.order = orderMatch /\ prev.email = emailMatch
  /\ NonMatching(emailMatch)

\* C2: two requests with the same order id and the same non-matching email
\* get the same order part of the prompt, whether or not the store held the
\* order when each of them ran.
C2_NoExistenceLeak == SameProbeTwice => orderData = prev.pedido

\* C2 on the master handler alone
C2_MasterNoExistenceLeak == variant = "master" => C2_NoExistenceLeak

----------------------------------------------------------------------------
(* Product search requests: SpecSearch *)

Num(n) == [t |-> "num", v |-> n]
Str(n) == [t |-> "str", v |-> n]

UnknownId == 99

\* visible_ids of the requests: absent, empty, the numbers 1..n for n around
\* the candidate cap and up to one more than the catalog, and lists with a
\* string id, an unknown id, a repeated id and ids in another order than the
\* index
SearchVs ==
  {NoVisible}
  \cup {[has |-> TRUE, ids |-> [i \in 1..n |-> Num(i)]] :
          n \in {0, CandidateCap - 1, CandidateCap + 1, CatalogSize + 1}}
  \cup {[has |-> TRUE, ids |-> l] :
          l \in {<<Str(3)>>, <<Num(UnknownId)>>, <<Num(2), Num(2)>>, <<Num(9), Num(2)>>}}

PlainQs == {<<Word(NoMatch, NoMatch)>>, <<>>}
EmptyHistory == [has |-> TRUE, turns |-> <<>>]

SearchTexts == {<<"k", "o", "n", "a", " ", "v", "2">>, <<"I", "I">>, <<"x", "y">>}
SearchVectors == {<<10, 0>>, <<6, 8>>}

PlainOuts ==
  {Content(<<LB, ReplyTok(FALSE),
             ProductsTok([k |-> "list", items |-> <<[k |-> "id", v |-> 1, variant |-> 0]>>]),
             RB>>)}

InitSearch ==
  /\ variant = "master"
  /\ orders = {}
  /\ pc = "idle"
  /\ HandlerIdle
  /\ aiIndex = <<>> /\ faqIndex = <<>> /\ disk \in Disks /\ boot = "starting"
  /\ fnIn = NoFn /\ fnOut = NoLookup

ReceiveSearch == Receive(PlainQs, {EmptyHistory}, SearchVs)
RefineSearch == RefineResolves(SearchTexts)
SearchLoads == {o \in LoadOutcomes : o.fail \in {"none", "embed"}}
LoadSearch == LoadResolves(SearchLoads)
StartupSearch == StartupLoad(SearchLoads)
EmbedSearch == EmbedResolves(SearchVectors)
LiveStockSearch == LiveStockResolves({"odd"})
CompletionSearch == CompletionResolves(PlainOuts)

NextSearch ==
  \/ ReceiveSearch
  \/ RefineSearch
  \/ LoadSearch
  \/ StartupSearch
  \/ EmbedSearch
  \/ LiveStockSearch
  \/ CompletionSearch
  \/ UpsertSettles
  \/ ReturnOrder

SpecSearch == InitSearch /\ [][NextSearch]_vars

\* the candidate records that are not among the visible ids of the request
SearchOnly(list, visible_ids) ==
  {i \in 1..Len(list) : ~isVisible(visible_ids, list[i])}

\* C4: the candidate set built for a request never holds more than 10
\* records, for every number of visible ids and every index size.
C4_AtMostTen == Len(finalCandidatesList) <= CandidateCap

Sorted(results) ==
  \A i \in 1..(Len(results) - 1) : results[i].score >= results[i + 1].score

ProductsRanked(results, index, query) ==
  /\ Len(results) = Min(TopKProducts, Len(index))
  /\ Sorted(results)
  /\ \A i \in 1..Len(results) :
       \E j \in 1..Len(index) :
         results[i] = withScore(index[j], adjustedScore(index[j], query))
  /\ \A j \in 1..Len(index) :
       (\A i \in 1..Len(results) : results[i].id # index[j].id)
       => \A i \in 1..Len(results) :
            adjustedScore(index[j], query) <= results[i].score

FaqsRanked(results, index, query) ==
  /\ Len(results) = Min(TopKFaqs, Len(index))
  /\ Sorted(results)
  /\ \A i \in 1..Len(results) :
       \E j \in 1..Len(index) :
         /\ results[i].question = index[j].question
         /\ results[i].score = cosineSimilarity(query.vector, index[j].embedding)
  /\ \A j \in 1..Len(index) :
       (\A i \in 1..Len(results) : results[i].question # index[j].question)
       => \A i \in 1..Len(results) :
            cosineSimilarity(query.vector, index[j].embedding) <= results[i].score

\* C10: when the ranking step has run, the product result has at most 8
\* records and the FAQ result at most 2 (as many as the index allows), each
\* is sorted by adjusted score in descending order, each record carries the
\* adjusted score of its index item, and no index item left out of a result
\* has a strictly higher adjusted score than an item included in it.
C10_RankingTopK ==
  [][(pc = "embed" /\ pc' = "stock")
     => /\ Len(searchResults') <= TopKProducts
        /\ Len(faqResults') <= TopKFaqs
        /\ ProductsRanked(searchResults', aiIndex, optimizedQuery')
        /\ FaqsRanked(faqResults', faqIndex, optimizedQuery')]_vars

\* both results were truncated, and a boost moved a product's score
C10_Witness ==
  /\ pc = "stock"
  /\ Len(searchResults) = TopKProducts /\ Len(aiIndex) > TopKProducts
  /\ Len(faqResults) = TopKFaqs /\ Len(faqIndex) > TopKFaqs
  /\ \E i \in 1..Len(searchResults) :
       searchResults[i].score # plainScore(searchResults[i], optimizedQuery)
  /\ \E i \in 1..(Len(searchResults) - 1) :
       searchResults[i].score > searchResults[i + 1].score

----------------------------------------------------------------------------
(* Candidate merging as a function: SpecMerge *)

MergeIds == 4                       \* products of the index
MaxResults == 3                     \* records of a ranked search list
MaxVisible == 2                     \* ids of a visible_ids list

\* the index holds the products 1..MergeIds in catalog order or reversed
MergeIndexes ==
  {[i \in 1..MergeIds |-> Product(i)],
   [i \in 1..MergeIds |-> Product(MergeIds + 1 - i)]}

InjectiveSeqs(S, n) ==
  {s \in SeqsUpTo(S, n) : \A i, j \in 1..Len(s) : i # j => s[i] # s[j]}

\* a ranked search list over the index: distinct products, scores descending
RankedLists ==
  {[i \in 1..Len(s) |-> withScore(Product(s[i]), 100 - i)] :
     s \in InjectiveSeqs(1..MergeIds, MaxResults)}

MergeVisibles ==
  {NoVisible}
  \cup {[has |-> TRUE, ids |-> l] :
          l \in SeqsUpTo({Num(i) : i \in 1..MergeIds} \cup {Str(2), Num(UnknownId)},
                         MaxVisible)}

\* the cap of the example and the cap of the handler
MergeCaps == {3, CandidateCap}

InitMerge ==
  /\ variant = "master"
  /\ orders = {}
  /\ pc = "fn"
  /\ HandlerIdle /\ IndexEmpty
  /\ \E index \in MergeIndexes, vis \in MergeVisibles, results \in RankedLists,
        cap \in MergeCaps :
       fnIn = [op |-> "combinedCandidates", index |-> index, hasVisible |-> vis.has,
               visible_ids |-> vis.ids, results |-> results, cap |-> cap]
  /\ fnOut = NoLookup

CallCombinedCandidates ==
  /\ pc = "fn" /\ fnIn.op = "combinedCandidates"
  /\ fnOut' = [list |-> combinedCandidates(fnIn.index, fnIn.hasVisible,
                                           fnIn.visible_ids, fnIn.results, fnIn.cap)]
  /\ pc' = "fn_done"
  /\ UNCHANGED <<variant, orders, req, orderVars, indexVars, searchVars,
                 replyVars, prev, fnIn, loads, logVars>>

NextMerge == CallCombinedCandidates

SpecMerge == InitMerge /\ [][NextMerge]_vars

Merged == pc = "fn_done" /\ fnIn.op = "combinedCandidates"

\* the ids of the index records the request names as visible, in index order
VisibleIdsInIndex ==
  IF fnIn.hasVisible THEN idsOf(filterVisible(fnIn.index, fnIn.visible_ids)) ELSE <<>>

InSeq(x, s) == \E i \in 1..Len(s) : s[i] = x

RECURSIVE without(_, _)
without(s, seen) ==
  IF s = <<>> THEN <<>>
  ELSE (IF InSeq(Head(s), seen) THEN <<>> ELSE <<Head(s)>>) \o without(Tail(s), seen)

\* the general part of the merging claim
MergeProperties ==
  LET out == idsOf(fnOut.list)
      vis == VisibleIdsInIndex
      fresh == without(idsOf(fnIn.results), vis)
      room == IF fnIn.cap > Len(vis) THEN fnIn.cap - Len(vis) ELSE 0
  IN /\ \A i, j \in 1..Len(out) : i # j => out[i] # out[j]
     /\ \A i \in 1..Len(vis) : InSeq(vis[i], out)
     /\ \A i, j \in 1..Len(out) :
          (InSeq(out[j], vis) /\ ~InSeq(out[i], vis)) => j < i
     /\ SubSeq(out, Len(vis) + 1, Len(out)) = slice(fresh, room)

IsTheExample ==
  /\ fnIn.hasVisible
  /\ [i \in 1..Len(fnIn.visible_ids) |-> String(fnIn.visible_ids[i])] = <<1, 2>>
  /\ idsOf(fnIn.results) = <<2, 3, 4>>
  /\ fnIn.cap = 3

\* C3 (as stated): the merged list has no two records with the same id,
\* contains every visible record of the index, places the visible records
\* before the records that came only from search and takes search results in
\* score order while the list is below the cap; visible [A,B] with search
\* [B,C,D] and cap 3 gives exactly [A,B,C].
C3_MergeExactlyABC ==
  Merged => /\ MergeProperties
            /\ IsTheExample => idsOf(fnOut.list) = <<1, 2, 3>>

\* C3: the merged list has no two records with the same id, contains every
\* visible record of the index, places the visible records before the records
\* that came only from search and takes search results in score order while
\* the list is below the cap; the visible records stand in the order the
\* index holds them, so visible [A,B] with search [B,C,D] and cap 3 gives A
\* and B in index order, followed by C.
C3_MergeVisibleInIndexOrder ==
  Merged => /\ MergeProperties
            /\ SubSeq(idsOf(fnOut.list), 1, Len(VisibleIdsInIndex)) = VisibleIdsInIndex
            /\ IsTheExample =>
                 idsOf(fnOut.list) \in {<<1, 2, 3>>, <<2, 1, 3>>}

\* the example of the claim on an index that holds A before B
C3_Witness ==
  /\ Merged /\ IsTheExample
  /\ fnIn.index[1].id = 1
  /\ idsOf(fnOut.list) = <<1, 2, 3>>

----------------------------------------------------------------------------
(* The generation output of a search request: SpecReply *)

MaxRefs == 2                        \* product references of a generation output

IdRef(id) == [k |-> "id", v |-> id, variant |-> 0]
ObjRef(id, variant_id) == [k |-> "obj", v |-> id, variant |-> variant_id]
NullRef == [k |-> "null", v |-> 0, variant |-> 0]

\* references to a product, to the last product of the catalog, to an id no
\* product has, to a product with one of its variants, with a variant it does
\* not have and without variant, and the JSON value null
RefValues ==
  {IdRef(1), IdRef(2), IdRef(CatalogSize), IdRef(UnknownId),
   ObjRef(2, 102), ObjRef(1, UnknownId), ObjRef(2, 0), NullRef}

ProductsPayloads ==
  {[k |-> "list", items |-> l] : l \in SeqsUpTo(RefValues, MaxRefs)}
  \cup {[k |-> "null"], [k |-> "falsy"], [k |-> "scalar"]}

ReplyOuts ==
  {Content(<<LB, ReplyTok(FALSE), ProductsTok(p), RB>>) : p \in ProductsPayloads}
  \cup {Content(<<LB, ProductsTok([k |-> "list", items |-> <<IdRef(1)>>]), RB>>),
        Content(<<LB, ReplyTok(FALSE), CategoryTok, RB>>),
        Content(<<LB, RB>>),
        Content(<<CM, LB, ReplyTok(FALSE),
                  ProductsTok([k |-> "list", items |-> <<IdRef(1)>>]), RB, CM>>),
        Content(<<LitNull>>), Content(<<LitPrim>>), Content(<<CM>>), Content(<<>>),
        NullContent}

ReplyVs == {NoVisible, [has |-> TRUE, ids |-> <<Num(CatalogSize), Num(1)>>]}

InitReply ==
  /\ variant = "master"
  /\ orders = {}
  /\ pc = "idle"
  /\ HandlerIdle /\ Loaded
  /\ fnIn = NoFn /\ fnOut = NoLookup

ReceiveReply == Receive(PlainQs, {NoHistory}, ReplyVs)
RefineReply == RefineResolves({PlainText})
EmbedReply == EmbedResolves({<<10, 0>>, <<0, 10>>})
LiveStockReply == LiveStockResolves({"all", "throw"})
CompletionReply == CompletionResolves(ReplyOuts)

NextReply ==
  \/ ReceiveReply
  \/ RefineReply
  \/ EmbedReply
  \/ LiveStockReply
  \/ CompletionReply
  \/ UpsertSettles
  \/ ReturnOrder

SpecReply == InitReply /\ [][NextReply]_vars

\* the request was answered after the generation output was parsed
Answered == pc = "done" /\ aiContent # NoContent

ResponseIds ==
  [i \in 1..Len(response.products) |-> response.products[i].product.id]

\* C5: each product identifier appears at most once in the final product
\* list of the response, and the products appear in the order of their first
\* mention.
C5_NoDuplicateProducts ==
  (Answered /\ response.status = 200) =>
    \A i, j \in 1..Len(response.products) : i # j => ResponseIds[i] # ResponseIds[j]

\* the references of the parsed output, [] when it has no list
ReferencesOf(content) ==
  IF content.k = "obj" /\ content.products.k = "list" THEN content.products.items
  ELSE <<>>

RECURSIVE knownRefs(_, _)
knownRefs(refs, list) ==
  IF refs = <<>> THEN <<>>
  ELSE (IF InSeq(Head(refs).v, idsOf(list)) THEN <<Head(refs)>> ELSE <<>>)
       \o knownRefs(Tail(refs), list)

\* C6: every product in the response is a record of this request's candidate
\* list (with the default image where it has none), never a record taken from
\* the rest of the index, and a referenced id that is not in the candidate
\* list is dropped without an error and without changing the other products
\* of the response: the response holds, in order, one product for each
\* reference to a candidate.
C6_ProductsFromCandidates ==
  (Answered /\ response.status = 200) =>
    LET known == knownRefs(ReferencesOf(aiContent), finalCandidatesList) IN
    /\ \A i \in 1..Len(response.products) :
         \E j \in 1..Len(finalCandidatesList) :
           response.products[i].product = safeProduct(finalCandidatesList[j])
    /\ Len(response.products) = Len(known)
    /\ \A i \in 1..Len(known) : ResponseIds[i] = known[i].v

\* a reference to an index product that is not a candidate and a reference
\* to an unknown id were dropped, the live stock of the kept product differs
\* from the index
C6_Witness ==
  /\ Answered /\ response.status = 200
  /\ Len(response.products) = 1
  /\ \E i \in 1..Len(ReferencesOf(aiContent)) :
       LET r == ReferencesOf(aiContent)[i] IN
       /\ InSeq(r.v, idsOf(aiIndex))
       /\ ~InSeq(r.v, idsOf(finalCandidatesList))
  /\ \A j \in 1..Len(aiIndex) : response.products[1].product # safeProduct(aiIndex[j])

\* C8: when the returned text parses but has missing or wrongly typed fields
\* the search request still ends with a success response carrying a reply
\* and a product list, never with the internal-error response.
C8_MalformedOutputNeverFails ==
  Answered => response.status = 200 /\ response.hasText

----------------------------------------------------------------------------
(* JSON extraction as a function: SpecJSON *)

MaxTokens == 4                      \* tokens of a generation text

TextTokens ==
  {LB, RB, CM, LitPrim, ReplyTok(FALSE),
   ProductsTok([k |-> "list", items |-> <<IdRef(1)>>])}

RawContents ==
  {NullContent} \cup {Content(t) : t \in SeqsUpTo(TextTokens, MaxTokens)}

InitJSON ==
  /\ variant = "master"
  /\ orders = {}
  /\ pc = "fn"
  /\ HandlerIdle /\ IndexEmpty
  /\ \E raw \in RawContents : fnIn = [op |-> "extractJSON", raw |-> raw]
  /\ fnOut = NoLookup

\* let aiContent; try { aiContent = extractJSON(rawContent) } catch { ... }
CallExtractJSON ==
  /\ pc = "fn" /\ fnIn.op = "extractJSON"
  /\ fnOut' = [val |-> parseContentMaster(fnIn.raw)]
  /\ pc' = "fn_done"
  /\ UNCHANGED <<variant, orders, req, orderVars, indexVars, searchVars,
                 replyVars, prev, fnIn, loads, logVars>>

NextJSON == CallExtractJSON

SpecJSON == InitJSON /\ [][NextJSON]_vars

Extracted == pc = "fn_done" /\ fnIn.op = "extractJSON"

NoBrace(s) == \A i \in 1..Len(s) : s[i] # LB /\ s[i] # RB

\* text[i..j] is a JSON object
ObjectAt(text, i, j) ==
  i <= j /\ text[i] = LB /\ text[j] = RB /\ JSONparse(SubSeq(text, i, j)).ok

\* C7: an object wrapped in commentary is recovered from the first "{" to the
\* last "}" of the text; for a text no part of which from a "{" to a "}"
\* parses (and which does not parse as a whole) the parsed result is the
\* fixed safe object; the extraction step always yields a value, never an
\* exception.
C7_ExtractOrFallback ==
  Extracted =>
    LET text == fnIn.raw.text IN
    /\ fnOut.val # NoContent
    /\ \A i, j \in 1..Len(text) :
         (/\ ObjectAt(text, i, j)
          /\ NoBrace(SubSeq(text, 1, i - 1))
          /\ NoBrace(SubSeq(text, j + 1, Len(text))))
         => fnOut.val = JSONparse(SubSeq(text, i, j)).val
    /\ (\/ fnIn.raw.isNull
        \/ /\ ~JSONparse(text).ok
           /\ \A i, j \in 1..Len(text) : ~ObjectAt(text, i, j))
       => fnOut.val = FallbackContent

----------------------------------------------------------------------------
(* The adjusted score of two index products: SpecScore *)

ScoreTitles ==
  {Kona, <<"K", "o", "n", "a", " ", "V", "2">>, Nalu \o <<" ", "i", "i">>, Nalu,
   Nalu \o <<" ", "i", "i", "i">>, <<"v", "2">>}

ScoreTexts ==
  {<<"k", "o", "n", "a", " ", "v", "2">>, <<"I", "I">>, <<"x", "y">>,
   <<" ", "K", "o", "n", "a", " ">>, <<"v", "2", " ", "i", "i">>,
   Nalu \o <<" ", "i", "i", "i">>, <<"k", "o", "n", " ", "v", "2">>}

ScoreEmbeddings == {<<5, 0>>, <<0, 5>>, <<5, 5>>}

ScoreProducts == [title : ScoreTitles, embedding : ScoreEmbeddings]

InitScore ==
  /\ variant = "master"
  /\ orders = {}
  /\ pc = "fn"
  /\ HandlerIdle /\ IndexEmpty
  /\ \E text \in ScoreTexts, vec \in SearchVectors, a \in ScoreProducts,
        b \in ScoreProducts :
       fnIn = [op |-> "score", query |-> [text |-> text, vector |-> vec],
               a |-> a, b |-> b]
  /\ fnOut = NoLookup

\* the callback of aiIndex.map (lines 942-948) on two products of the index
CallAdjustedScore ==
  /\ pc = "fn" /\ fnIn.op = "score"
  /\ fnOut' = [a |-> adjustedScore(fnIn.a, fnIn.query),
               b |-> adjustedScore(fnIn.b, fnIn.query)]
  /\ pc' = "fn_done"
  /\ UNCHANGED <<variant, orders, req, orderVars, indexVars, searchVars,
                 replyVars, prev, fnIn, loads, logVars>>

NextScore == CallAdjustedScore

SpecScore == InitScore /\ [][NextScore]_vars

Scored == pc = "fn_done" /\ fnIn.op = "score"

BaseScore(p) == cosineSimilarity(fnIn.query.vector, p.embedding)

\* the tokens of the query, lowercased
QueryTokens == split(trim(toLowerCase(fnIn.query.text)))

TitleHas(p, token) == includes(toLowerCase(p.title), token)

\* the title contains a query token longer than 3 characters
HasLongToken(p) ==
  \E i \in 1..Len(QueryTokens) : Len(QueryTokens[i]) > 3 /\ TitleHas(p, QueryTokens[i])

\* the version tokens of the query, in query order
VersionTokens ==
  LET ws == split(toLowerCase(fnIn.query.text)) IN
  [i \in {j \in 1..Len(ws) : IsVersionWord(ws[j])} |-> ws[i]]

FirstVersionToken ==
  LET ws == split(toLowerCase(fnIn.query.text))
      hits == {j \in 1..Len(ws) : IsVersionWord(ws[j])}
  IN IF hits = {} THEN NoMatch ELSE ws[CHOOSE j \in hits : \A k \in hits : j <= k]

\* C11 (as stated): of two products with the same base similarity score, the
\* one whose title contains a query token longer than 3 characters gets a
\* strictly higher adjusted score than the one whose title contains none.
C11_KeywordBoostAlways ==
  Scored =>
    ((BaseScore(fnIn.a) = BaseScore(fnIn.b) /\ HasLongToken(fnIn.a)
      /\ ~HasLongToken(fnIn.b)) => fnOut.a > fnOut.b)

\* both titles get the same version adjustment: the query has no version
\* token, or both titles contain its first version token, or both lack it
SameVersionSide ==
  \/ FirstVersionToken = NoMatch
  \/ TitleHas(fnIn.a, FirstVersionToken) <=> TitleHas(fnIn.b, FirstVersionToken)

\* C11: of two products with the same base similarity score and the same
\* version adjustment, the one whose title contains a query token longer
\* than 3 characters scores exactly the keyword boost (0.3) higher than the
\* one whose title contains none, hence strictly higher.
C11_KeywordBoostSameVersion ==
  Scored =>
    ((BaseScore(fnIn.a) = BaseScore(fnIn.b) /\ SameVersionSide
      /\ HasLongToken(fnIn.a) /\ ~HasLongToken(fnIn.b))
     => fnOut.a = fnOut.b + KeywordBoost /\ fnOut.a > fnOut.b)

\* a query with a keyword and a version token, two titles without the
\* version, one of them with the keyword
C11_Witness ==
  /\ Scored
  /\ FirstVersionToken # NoMatch
  /\ BaseScore(fnIn.a) = BaseScore(fnIn.b) /\ fnIn.a.embedding # fnIn.b.embedding
  /\ ~TitleHas(fnIn.a, FirstVersionToken) /\ ~TitleHas(fnIn.b, FirstVersionToken)
  /\ HasLongToken(fnIn.a) /\ ~HasLongToken(fnIn.b)
  /\ fnOut.a > fnOut.b

VersionGap == VersionBoost + VersionPenalty

SameBaseAndKeyword ==
  /\ BaseScore(fnIn.a) = BaseScore(fnIn.b)
  /\ HasLongToken(fnIn.a) <=> HasLongToken(fnIn.b)

\* C12 (as stated): when the query contains a version token, a product whose
\* title contains that token scores at least 0.7 above a product with the
\* same base score and keyword match whose title lacks the token.
C12_VersionBoostAnyToken ==
  Scored =>
    \A i \in DOMAIN VersionTokens :
      (SameBaseAndKeyword /\ TitleHas(fnIn.a, VersionTokens[i])
       /\ ~TitleHas(fnIn.b, VersionTokens[i]))
      => fnOut.a >= fnOut.b + VersionGap

\* C12: when the query contains a version token, a product whose title
\* contains the first version token of the query scores 0.7 above a product
\* with the same base score and keyword match whose title lacks that token;
\* later version tokens of the query change no score.
C12_VersionBoostFirstToken ==
  Scored =>
    /\ (FirstVersionToken # NoMatch /\ SameBaseAndKeyword
        /\ TitleHas(fnIn.a, FirstVersionToken) /\ ~TitleHas(fnIn.b, FirstVersionToken))
       => fnOut.a = fnOut.b + VersionGap
    /\ (SameBaseAndKeyword /\ SameVersionSide) => fnOut.a = fnOut.b

\* the query names a version in another letter case than the title, both
\* titles have the keyword, one has the version
C12_Witness ==
  /\ Scored
  /\ FirstVersionToken = <<"v", "2">>
  /\ fnIn.a.title # toLowerCase(fnIn.a.title)
  /\ SameBaseAndKeyword /\ HasLongToken(fnIn.a)
  /\ TitleHas(fnIn.a, FirstVersionToken) /\ ~TitleHas(fnIn.b, FirstVersionToken)
  /\ fnOut.a = fnOut.b + VersionGap

----------------------------------------------------------------------------
(* Query normalization: the concept tables and normalizeQuery *)

\* CONCEPTS of concepts.js, in the order of Object.values
CONCEPTS ==
  <<
    \* CAPUCHA
    [canonical |-> <<"c", "a", "p", "u", "c", "h", "a">>,
     matches |->
       <<<<"g", "o", "r", "r", "o">>>>],
    \* CHAQUETA
    [canonical |-> <<"c", "h", "a", "q", "u", "e", "t", "a">>,
     matches |->
       <<<<"c", "h", "a", "m", "a", "r", "r", "a">>,
         <<"z", "a", "m", "a", "r", "r", "a">>>>],
    \* TERCERA_CAPA
    [canonical |-> <<"t", "e", "r", "c", "e", "r", "a", "_", "c", "a", "p", "a">>,
     matches |->
       <<<<"a", "b", "r", "i", "g", "o">>, <<"a", "n", "o", "r", "a", "k">>,
         <<"c", "h", "a", "q", "u", "e", "t", "ó", "n">>,
         <<"c", "a", "z", "a", "d", "o", "r", "a">>>>],
    \* TUBULAR
    [canonical |-> <<"t", "u", "b", "u", "l", "a", "r">>,
     matches |->
       <<<<"c", "u", "e", "l", "l", "o">>, <<"b", "r", "a", "g", "a">>,
         <<"c", "a", "l", "e", "n", "t", "a", "d", "o", "r", "_", "d", "e", "_", "c", "u", "e", "l", "l", "o">>>>],
    \* BUFANDA
    [canonical |-> <<"b", "u", "f", "a", "n", "d", "a">>,
     matches |->
       <<<<"b", "u", "f", "a", "n", "d", "a">>>>],
    \* ZAPATILLAS
    [canonical |-> <<"z", "a", "p", "a", "t", "i", "l", "l", "a", "s">>,
     matches |->
       <<<<"z", "a", "p", "a", "t", "i", "l", "l", "a">>,
         <<"d", "e", "p", "o", "r", "t", "i", "v", "a", "s">>,
         <<"b", "a", "m", "b", "a", "s">>, <<"t", "e", "n", "i", "s">>,
         <<"p", "l", "a", "y", "e", "r", "a", "s">>,
         <<"z", "a", "p", "a", "t", "o">>,
         <<"c", "a", "l", "z", "a", "d", "o">>,
         <<"m", "a", "r", "i", "p", "í">>,
         <<"m", "a", "r", "i", "p", "í", "e", "s">>,
         <<"m", "a", "r", "i", "p", "í", "s">>>>],
    \* MOCHILA
    [canonical |-> <<"m", "o", "c", "h", "i", "l", "a">>,
     matches |->
       <<<<"b", "o", "l", "s", "a">>>>],
    \* PALA
    [canonical |-> <<"p", "a", "l", "a">>,
     matches |->
       <<<<"r", "a", "q", "u", "e", "t", "a">>>>],
    \* CHAQUETA_DE_FIBRA
    [canonical |-> <<"c", "h", "a", "q", "u", "e", "t", "a", "_", "d", "e", "_", "f", "i", "b", "r", "a">>,
     matches |->
       <<<<"c", "h", "a", "q", "u", "e", "t", "a", "_", "d", "e", "_", "p", "l", "u", "m", "a">>,
         <<"p", "l", "u", "m", "a", "s">>,
         <<"p", "l", "u", "m", "í", "f", "e", "r", "o">>,
         <<"p", "l", "u", "m", "í", "f", "e", "r", "o", "s">>,
         <<"b", "o", "m", "b", "e", "r">>>>],
    \* CHAQUETA_RELLENA
    [canonical |-> <<"c", "h", "a", "q", "u", "e", "t", "a", "_", "r", "e", "l", "l", "e", "n", "a">>,
     matches |->
       <<<<"c", "h", "a", "q", "u", "e", "t", "a", "_", "d", "e", "_", "p", "l", "u", "m", "a">>,
         <<"p", "l", "u", "m", "a", "s">>,
         <<"p", "l", "u", "m", "í", "f", "e", "r", "o">>,
         <<"p", "l", "u", "m", "í", "f", "e", "r", "o", "s">>,
         <<"b", "o", "m", "b", "e", "r">>>>],
    \* FROSTY
    [canonical |-> <<"f", "r", "o", "s", "t", "y">>,
     matches |->
       <<<<"e", "s", "c", "a", "r", "p", "i", "n", "e", "s">>,
         <<"c", "a", "n", "g", "r", "e", "j", "e", "r", "a", "s">>>>],
    \* CHAQUETA_IMPERMEABLE
    [canonical |-> <<"c", "h", "a", "q", "u", "e", "t", "a", "_", "i", "m", "p", "e", "r", "m", "e", "a", "b", "l", "e">>,
     matches |->
       <<<<"c", "h", "u", "b", "a", "s", "q", "u", "e", "r", "o">>>>],
    \* POLO
    [canonical |-> <<"p", "o", "l", "o">>,
     matches |->
       <<<<"n", "i", "q", "u", "i">>>>],
    \* BOTAS_DE_TREKKING
    [canonical |-> <<"b", "o", "t", "a", "s", "_", "d", "e", "_", "t", "r", "e", "k", "k", "i", "n", "g">>,
     matches |->
       <<<<"b", "o", "t", "a", "s", "_", "d", "e", "_", "m", "o", "n", "t", "e">>,
         <<"c", "a", "l", "z", "a", "d", "o">>>>],
    \* BOTAS
    [canonical |-> <<"b", "o", "t", "a", "s">>,
     matches |->
       <<<<"c", "a", "l", "z", "a", "d", "o">>>>],
    \* CHANCLAS
    [canonical |-> <<"c", "h", "a", "n", "c", "l", "a", "s">>,
     matches |->
       <<<<"c", "a", "l", "z", "a", "d", "o">>>>],
    \* PANTUFLAS
    [canonical |-> <<"p", "a", "n", "t", "u", "f", "l", "a", "s">>,
     matches |->
       <<<<"c", "a", "l", "z", "a", "d", "o">>>>],
    \* SANDALIAS
    [canonical |-> <<"s", "a", "n", "d", "a", "l", "i", "a", "s">>,
     matches |->
       <<<<"c", "a", "l", "z", "a", "d", "o">>>>],
    \* TREKKING
    [canonical |-> <<"t", "r", "e", "k", "k", "i", "n", "g">>,
     matches |->
       <<<<"s", "e", "n", "d", "e", "r", "i", "s", "m", "o">>>>],
    \* BASTONES
    [canonical |-> <<"b", "a", "s", "t", "o", "n", "e", "s">>,
     matches |->
       <<<<"p", "a", "l", "o", "s">>>>],
    \* PANTALON_TREKKING
    [canonical |-> <<"p", "a", "n", "t", "a", "l", "ó", "n", "_", "t", "r", "e", "k", "k", "i", "n", "g">>,
     matches |->
       <<<<"p", "a", "n", "t", "a", "l", "o", "n", "_", "d", "e", "_", "m", "o", "n", "t", "a", "ñ", "a">>>>],
    \* ZAPATILLAS_DE_DESCANSO
    [canonical |-> <<"z", "a", "p", "a", "t", "i", "l", "l", "a", "s", "_", "d", "e", "_", "d", "e", "s", "c", "a", "n", "s", "o">>,
     matches |->
       <<<<"z", "u", "e", "c", "o", "s">>,
         <<"z", "a", "p", "a", "t", "i", "l", "l", "a", "s", "_", "c", "a", "s", "a">>,
         <<"a", "l", "p", "a", "r", "g", "a", "t", "a", "s">>>>],
    \* MALLAS
    [canonical |-> <<"m", "a", "l", "l", "a", "s">>,
     matches |->
       <<<<"l", "e", "g", "g", "i", "n", "s">>,
         <<"l", "e", "g", "g", "i", "n", "g", "s">>,
         <<"l", "e", "g", "i", "n", "s">>,
         <<"l", "e", "g", "i", "n", "g", "s">>>>],
    \* POLAR
    [canonical |-> <<"p", "o", "l", "a", "r">>,
     matches |->
       <<<<"f", "o", "r", "r", "o">>>>],
    \* CHAQUETA_LARGA
    [canonical |-> <<"c", "h", "a", "q", "u", "e", "t", "a", "_", "l", "a", "r", "g", "a">>,
     matches |->
       <<<<"p", "a", "r", "k", "a">>>>],
    \* MOUNT_TEX
    [canonical |-> <<"m", "o", "u", "n", "t", "-", "t", "e", "x">>,
     matches |->
       <<<<"g", "o", "r", "e", "t", "e", "x">>>>],
    \* CHAQUETA_DE_PUNTO
    [canonical |-> <<"c", "h", "a", "q", "u", "e", "t", "a", "_", "d", "e", "_", "p", "u", "n", "t", "o">>,
     matches |->
       <<<<"r", "e", "b", "e", "c", "a">>>>]
  >>

\* COLOR_CONCEPTS of concepts.js: the canonical name of each colour. The joined
\* matches of a colour, color.matches.join(" "), are kept as one element of
\* the string, named after the colour: no colour name, concept word or size
\* token stands in them as a word.
ColorConcept(key, canonical) == [canonical |-> canonical, joined |-> <<key>>]

COLOR_CONCEPTS ==
  <<ColorConcept("AMARILLO", <<"a", "m", "a", "r", "i", "l", "l", "o">>),
    ColorConcept("AZUL", <<"a", "z", "u", "l">>),
    ColorConcept("BEIGE", <<"b", "e", "i", "g", "e">>),
    ColorConcept("BLANCO", <<"b", "l", "a", "n", "c", "o">>),
    ColorConcept("GRIS", <<"g", "r", "i", "s">>),
    ColorConcept("MARRON", <<"m", "a", "r", "r", "o", "n">>),
    ColorConcept("MORADO", <<"m", "o", "r", "a", "d", "o">>),
    ColorConcept("MULTICOLOR", <<"m", "u", "l", "t", "i", "c", "o", "l", "o", "r">>),
    ColorConcept("NARANJA", <<"n", "a", "r", "a", "n", "j", "a">>),
    ColorConcept("NEGRO", <<"n", "e", "g", "r", "o">>),
    ColorConcept("ROJO", <<"r", "o", "j", "o">>),
    ColorConcept("ROSA", <<"r", "o", "s", "a">>),
    ColorConcept("VERDE", <<"v", "e", "r", "d", "e">>)>>

\* includesWord(q, word)
includesWord(q, word) == includes(q, <<" ">> \o toLowerCase(word) \o <<" ">>)

\* Array.prototype.join(" ")
RECURSIVE join(_)
join(ws) ==
  IF ws = <<>> THEN <<>>
  ELSE IF Len(ws) = 1 THEN ws[1]
  ELSE ws[1] \o <<" ">> \o join(Tail(ws))

endsWith(s, c) == s # <<>> /\ s[Len(s)] = c

\* base.replace(/X$/, by) for a base that ends with X
replaceLast(s, by) == SubSeq(s, 1, Len(s) - 1) \o by

IsVowel(c) ==
  LowerChar(c) \in {"a", "e", "i", "o", "u", "á", "é", "í", "ó", "ú"}

\* colorVariants(base)
colorVariants(base) ==
  IF endsWith(base, "o")
  THEN <<base, replaceLast(base, <<"a">>), base \o <<"s">>,
         replaceLast(base, <<"o", "s">>), replaceLast(base, <<"a", "s">>)>>
  ELSE IF endsWith(base, "z") THEN <<base, replaceLast(base, <<"c", "e", "s">>)>>
  ELSE IF base # <<>> /\ IsVowel(base[Len(base)]) THEN <<base, base \o <<"s">>>>
  ELSE <<base, base \o <<"e", "s">>>>

\* the body of Object.values(CONCEPTS).forEach(...) for one concept
conceptStep(q, concept) ==
  LET q1 == IF \E i \in 1..Len(concept.matches) : includesWord(q, concept.matches[i])
            THEN q \o <<" ">> \o concept.canonical ELSE q
  IN IF includesWord(q1, concept.canonical)
     THEN q1 \o <<" ">> \o join(concept.matches) ELSE q1

\* the body of Object.values(COLOR_CONCEPTS).forEach(...) for one colour
colorStep(q, color) ==
  LET variants == colorVariants(color.canonical) IN
  IF \E i \in 1..Len(variants) : includesWord(q, variants[i])
  THEN q \o <<" ">> \o color.joined \o <<" ">> ELSE q

RECURSIVE forEachConcept(_, _)
forEachConcept(q, cs) ==
  IF cs = <<>> THEN q
  ELSE LET next == conceptStep(q, Head(cs)) IN
       IF next = q THEN forEachConcept(q, Tail(cs)) ELSE forEachConcept(next, Tail(cs))

RECURSIVE forEachColor(_, _)
forEachColor(q, cs) ==
  IF cs = <<>> THEN q
  ELSE LET next == colorStep(q, Head(cs)) IN
       IF next = q THEN forEachColor(q, Tail(cs)) ELSE forEachColor(next, Tail(cs))

\* \w of a regular expression without the u flag
IsWordChar(c) ==
  \/ IsDigit(c) \/ c = "_"
  \/ LowerChar(c) \in {"a", "b", "c", "d", "e", "f", "g", "h", "i", "j", "k", "l", "m",
                       "n", "o", "p", "q", "r", "s", "t", "u", "v", "w", "x", "y", "z"}

\* \b at the gap before position i of s
wordBoundary(s, i) ==
  LET before == i > 1 /\ IsWordChar(s[i - 1])
      after == i <= Len(s) /\ IsWordChar(s[i])
  IN before # after

\* a wrong boundary: none required
wordBoundaryAny(s, i) == TRUE

\* the \b of the size pattern
sizeBoundary(s, i) == wordBoundary(s, i)

SizeWords == <<<<"x", "x", "l">>, <<"x", "x", "x", "l">>, <<"x", "x", "x", "x", "l">>>>

\* the callback of the size replace
sizeReplacement(match) ==
  LET m == toLowerCase(match) IN
  IF m = SizeWords[1] THEN <<"2", "x", "l">>
  ELSE IF m = SizeWords[2] THEN <<"3", "x", "l">>
  ELSE IF m = SizeWords[3] THEN <<"4", "x", "l">>
  ELSE match

\* the length of the match of /\b(xxl|xxxl|xxxxl)\b/i at position i, 0 when
\* there is none; the alternatives are tried in order
sizeMatchAt(s, i) ==
  LET fits(k) == /\ i + Len(SizeWords[k]) - 1 <= Len(s)
                 /\ toLowerCase(SubSeq(s, i, i + Len(SizeWords[k]) - 1)) = SizeWords[k]
                 /\ sizeBoundary(s, i + Len(SizeWords[k]))
      hits == {k \in 1..Len(SizeWords) : fits(k)}
  IN IF ~sizeBoundary(s, i) \/ hits = {} THEN 0
     ELSE Len(SizeWords[CHOOSE k \in hits : \A j \in hits : k <= j])

\* the concatenation of pieces[lo..hi]
RECURSIVE concat(_, _, _)
concat(pieces, lo, hi) ==
  IF lo > hi THEN <<>>
  ELSE IF lo = hi THEN pieces[lo]
  ELSE LET mid == (lo + hi) \div 2 IN
       concat(pieces, lo, mid) \o concat(pieces, mid + 1, hi)

\* q.replace(/\b(xxl|xxxl|xxxxl)\b/gi, ...): the scan goes from left to
\* right and resumes after each match, so a position inside a match starts
\* no match of its own; every other position keeps its character
replaceSizes(s) ==
  LET len == [i \in 1..Len(s) |-> sizeMatchAt(s, i)]
      inside(i) == \E j \in 1..(i - 1) : len[j] > i - j
      pieces == [i \in 1..Len(s) |->
                   IF inside(i) THEN <<>>
                   ELSE IF len[i] > 0 THEN sizeReplacement(SubSeq(s, i, i + len[i] - 1))
                   ELSE <<s[i]>>]
  IN concat(pieces, 1, Len(s))

normalizeQuery(query) ==
  LET q0 == <<" ">> \o toLowerCase(query) \o <<" ">>
      q1 == forEachConcept(q0, CONCEPTS)
      q2 == forEachColor(q1, COLOR_CONCEPTS)
  IN replaceSizes(q2)

----------------------------------------------------------------------------
(* Specification of normalizeQuery as a function of the query *)

Range(f) == {f[i] : i \in DOMAIN f}

\* every canonical term and every synonym of CONCEPTS
ConceptWords ==
  UNION {{CONCEPTS[i].canonical} \cup Range(CONCEPTS[i].matches) : i \in DOMAIN CONCEPTS}

\* every grammatical variant of every colour
ColorWords ==
  UNION {Range(colorVariants(COLOR_CONCEPTS[i].canonical)) : i \in DOMAIN COLOR_CONCEPTS}

\* size tokens: the three the pattern names in several cases, longer and
\* embedded ones, and tokens the pattern does not name
SizeTokens ==
  {<<"x", "x", "l">>, <<"X", "X", "L">>, <<"X", "x", "l">>, <<"x", "x", "x", "l">>,
   <<"X", "X", "X", "L">>, <<"x", "x", "x", "x", "l">>, <<"X", "X", "X", "X", "L">>,
   <<"x", "x", "x", "x", "x", "l">>, <<"a", "x", "x", "l">>, <<"x", "x", "l", "s">>,
   <<"x", "x", "l", "_", "1">>, <<"x", "l">>, <<"M">>, <<"L", "X">>, <<"2", "x", "l">>}

NormalizeWords == ConceptWords \cup ColorWords \cup SizeTokens

\* what stands before and after the word in the query
NormalizeFrames ==
  {[pre |-> <<>>, post |-> <<>>],
   [pre |-> <<"h", "a", "y", " ">>, post |-> <<" ", "L", "X">>],
   [pre |-> <<>>, post |-> <<"?">>],
   [pre |-> <<"¿">>, post |-> <<",", " ", "X", "X", "L", ".">>],
   [pre |-> <<"t", "a", "l", "l", "a", " ", "M", " ">>, post |-> <<" ", "x", "x", "x", "l">>],
   [pre |-> <<"x", "x", "l", "-">>, post |-> <<"/", "X", "X", "X", "X", "L">>]}

NormalizeQueries == {f.pre \o w \o f.post : w \in NormalizeWords, f \in NormalizeFrames}

InitNormalize ==
  /\ variant = "master"
  /\ orders = {}
  /\ pc = "fn"
  /\ HandlerIdle /\ IndexEmpty
  /\ \E query \in NormalizeQueries : fnIn = [op |-> "normalizeQuery", query |-> query]
  /\ fnOut = NoLookup

CallNormalizeQuery ==
  /\ pc = "fn" /\ fnIn.op = "normalizeQuery"
  /\ fnOut' = normalizeQuery(fnIn.query)
  /\ pc' = "fn_done"
  /\ UNCHANGED <<variant, orders, req, orderVars, indexVars, searchVars,
                 replyVars, prev, fnIn, loads, logVars>>

NextNormalize == CallNormalizeQuery

SpecNormalize == InitNormalize /\ [][NextNormalize]_vars

Normalized == pc = "fn_done" /\ fnIn.op = "normalizeQuery"

\* a letter or a digit, accented letters included
IsAlnum(c) == IsWordChar(c) \/ c \in {"á", "é", "í", "ó", "ú", "ñ", "ü"}

\* word stands in s as a whole word: an occurrence with no letter or digit
\* next to it on either side
HasWholeWord(s, word) ==
  \E i \in 1..(Len(s) - Len(word) + 1) :
    /\ SubSeq(s, i, i + Len(word) - 1) = word
    /\ (i = 1 \/ ~IsAlnum(s[i - 1]))
    /\ (i + Len(word) > Len(s) \/ ~IsAlnum(s[i + Len(word)]))

\* word stands in s between two spaces, or between a space and an end of s
HasSpacedWord(s, word) == includes(<<" ">> \o s \o <<" ">>, <<" ">> \o word \o <<" ">>)

Synonyms(concept) == Range(concept.matches)

\* C13: for every concept, a query with a synonym as a whole word gives a
\* string that contains the canonical term, and a query with the canonical
\* term as a whole word gives a string that contains every synonym
C13_WholeWordExpansion ==
  Normalized =>
    \A k \in DOMAIN CONCEPTS :
      LET concept == CONCEPTS[k]
          query == toLowerCase(fnIn.query)
      IN /\ (\E syn \in Synonyms(concept) : HasWholeWord(query, syn))
              => includes(fnOut, concept.canonical)
         /\ HasWholeWord(query, concept.canonical)
              => \A syn \in Synonyms(concept) : includes(fnOut, syn)

\* the same expansion for words that stand between spaces, which is what
\* includesWord looks for
C13_SpacedWordExpansion ==
  Normalized =>
    \A k \in DOMAIN CONCEPTS :
      LET concept == CONCEPTS[k]
          query == toLowerCase(fnIn.query)
      IN /\ (\E syn \in Synonyms(concept) : HasSpacedWord(query, syn))
              => includes(fnOut, concept.canonical)
         /\ HasSpacedWord(query, concept.canonical)
              => \A syn \in Synonyms(concept) : includes(fnOut, syn)

\* a query where a synonym stands between spaces has been expanded
C13_SpacedWitness ==
  /\ Normalized
  /\ \E k \in DOMAIN CONCEPTS :
       /\ \E syn \in Synonyms(CONCEPTS[k]) : HasSpacedWord(toLowerCase(fnIn.query), syn)
       /\ ~HasSpacedWord(toLowerCase(fnIn.query), CONCEPTS[k].canonical)
       /\ includes(fnOut, CONCEPTS[k].canonical)

\* the maximal runs of s from position i on: a run holds word characters
\* only or none
RECURSIVE runsFrom(_, _)
runsFrom(s, i) ==
  IF i > Len(s) THEN <<>>
  ELSE LET same(k) == IsWordChar(s[k]) = IsWordChar(s[i])
           j == CHOOSE j \in i..Len(s) :
                  /\ \A k \in i..j : same(k)
                  /\ (j = Len(s) \/ ~same(j + 1))
       IN <<SubSeq(s, i, j)>> \o runsFrom(s, j + 1)

\* what the claim expects of one run: the three size words become 2xl, 3xl
\* and 4xl, every other run stays
ExpectedRun(run) ==
  IF run = <<"x", "x", "l">> THEN <<"2", "x", "l">>
  ELSE IF run = <<"x", "x", "x", "l">> THEN <<"3", "x", "l">>
  ELSE IF run = <<"x", "x", "x", "x", "l">> THEN <<"4", "x", "l">>
  ELSE run

ExpectedSizes(s) ==
  LET runs == runsFrom(s, 1) IN
  concat([k \in 1..Len(runs) |-> ExpectedRun(runs[k])], 1, Len(runs))

StartsWith(s, prefix) == Len(prefix) <= Len(s) /\ SubSeq(s, 1, Len(prefix)) = prefix

\* word stands in s with no word character next to it
HasSizeWord(s, word) ==
  \E i \in 1..(Len(s) - Len(word) + 1) :
    /\ SubSeq(s, i, i + Len(word) - 1) = word
    /\ (i = 1 \/ ~IsWordChar(s[i - 1]))
    /\ (i + Len(word) > Len(s) \/ ~IsWordChar(s[i + Len(word)]))

\* C14: the result starts with the lowercased query (a space on each side)
\* in which every whole-word xxl, xxxl and xxxxl has become 2xl, 3xl and 4xl
\* and every other token is as it was; no whole-word xxl, xxxl or xxxxl is
\* left anywhere in the result
C14_SizeRewrite ==
  Normalized =>
    /\ StartsWith(fnOut, ExpectedSizes(<<" ">> \o toLowerCase(fnIn.query) \o <<" ">>))
    /\ \A k \in DOMAIN SizeWords : ~HasSizeWord(fnOut, SizeWords[k])

\* a query with XXL and LX as whole words: XXL has become 2xl, LX is lx
C14_Witness ==
  /\ Normalized
  /\ HasSizeWord(fnIn.query, <<"X", "X", "L">>)
  /\ HasSizeWord(fnIn.query, <<"L", "X">>)
  /\ includes(fnOut, <<" ", "2", "x", "l", " ", "l", "x", " ">>)

----------------------------------------------------------------------------
(* loadIndexes await by await: SpecLoad *)
(* Several callers are in loadIndexes at once: the app.listen callback and *)
(* the handlers that found the index empty. Each action is the code from   *)
(* one await to the next. The programs are master (src/server.js) and the  *)
(* older variant of src/unnamed/part_001 ("older").                        *)

LoadCatalogSize == 3                 \* products of the shop
LoadPageSize == 2                    \* products per catalog page

LoadCatalog == [i \in 1..LoadCatalogSize |-> Product(i)]
LoadPages == (LoadCatalogSize + LoadPageSize - 1) \div LoadPageSize

\* the edges of catalog page n
pageOf(n) ==
  SubSeq(LoadCatalog, (n - 1) * LoadPageSize + 1, Min(LoadCatalogSize, n * LoadPageSize))

\* data.products.pageInfo.hasNextPage of page n
hasNextPage(n) == n < LoadPages

\* rawFaqs, the content of FAQ_FILE
LoadFaqs == <<FaqList[1]>>

\* INDEX_FILE: absent, present and unreadable, present with text that is
\* not JSON, or present with an array (the empty one included)
LoadDisks ==
  {[index |-> i, items |-> <<>>, faq |-> f] :
     i \in {"absent", "unreadable", "corrupt", "written"}, f \in {"ok"}}
  \cup {[index |-> "written", items |-> LoadCatalog, faq |-> "ok"],
        [index |-> "absent", items |-> <<>>, faq |-> "absent"],
        [index |-> "absent", items |-> <<>>, faq |-> "corrupt"]}

\* a wrong test: the index always counts as empty
indexIsEmptyAlways(idx) == TRUE

\* !aiIndex.length (line 934 and line 878)
indexIsEmpty(idx) == idx = <<>>

\* The snapshot read at the head of loadIndexes. master: line 877, errors
\* caught and dropped. older: part_001 lines 204-206, no handler.
readSnapshot(v, idx, dsk) ==
  IF dsk.index = "absent" THEN [aiIndex |-> idx, threw |-> FALSE]
  ELSE IF dsk.index = "written" THEN [aiIndex |-> dsk.items, threw |-> FALSE]
  ELSE [aiIndex |-> idx, threw |-> v # "master"]

\* whether loadIndexes goes to the catalog: master tests the index (line
\* 878), older takes the else branch of existsSync (part_001 line 207)
rebuilds(v, idx, dsk) ==
  IF v = "master" THEN indexIsEmpty(idx) ELSE dsk.index = "absent"

\* The FAQ part up to its first await (master lines 884-887): where the
\* caller stands then and what faqIndex is.
faqPart(dsk, faqs) ==
  IF dsk.faq = "absent" THEN [pc |-> "done", k |-> 0, faqIndex |-> faqs]
  ELSE IF dsk.faq = "corrupt" THEN [pc |-> "failed", k |-> 0, faqIndex |-> faqs]
  ELSE IF LoadFaqs = <<>> THEN [pc |-> "done", k |-> 0, faqIndex |-> <<>>]
  ELSE [pc |-> "faqEmbed", k |-> 1, faqIndex |-> <<>>]

\* After the product loop: the snapshot write (master line 882, errors
\* caught; older part_001 line 214, no handler) and the FAQ part.
afterProducts(v, idx, dsk, faqs, writeOk) ==
  LET dsk1 == IF writeOk THEN [dsk EXCEPT !.index = "written", !.items = idx] ELSE dsk
      f == faqPart(dsk1, faqs)
  IN IF ~writeOk /\ v # "master"
     THEN [pc |-> "failed", k |-> 0, faqIndex |-> faqs, disk |-> dsk]
     ELSE [pc |-> f.pc, k |-> f.k, faqIndex |-> f.faqIndex, disk |-> dsk1]

\* loadIndexes from its call to its first await
BeginLoad(c) ==
  LET r == readSnapshot(variant, aiIndex, disk) IN
  IF r.threw
  THEN /\ loads' = [loads EXCEPT ![c].pc = "failed"]
       /\ UNCHANGED <<aiIndex, faqIndex>>
  ELSE /\ aiIndex' = r.aiIndex
       /\ IF rebuilds(variant, r.aiIndex, disk)
          THEN /\ loads' = [loads EXCEPT ![c] = [pc |-> "fetch", products |-> <<>>,
                                                 fetches |-> 1, k |-> 0]]
               /\ UNCHANGED faqIndex
          ELSE LET f == faqPart(disk, faqIndex) IN
               /\ loads' = [loads EXCEPT ![c].pc = f.pc, ![c].k = f.k]
               /\ faqIndex' = f.faqIndex

\* app.listen's callback calls loadIndexes (line 1054)
StartupBegins ==
  /\ boot = "starting" /\ loads["startup"].pc = "none"
  /\ BeginLoad("startup")
  /\ UNCHANGED <<variant, orders, pc, req, orderVars, disk, boot, searchVars,
                 replyVars, prev, fnVars, logVars>>

\* a handler reaches `if (!aiIndex.length) await loadIndexes();` (line 934)
EnsureLoaded(c) ==
  /\ c # "startup" /\ loads[c].pc = "none"
  /\ loads["startup"].pc # "none"
  /\ IF indexIsEmpty(aiIndex)
     THEN BeginLoad(c)
     ELSE /\ loads' = [loads EXCEPT ![c].pc = "skipped"]
          /\ UNCHANGED <<aiIndex, faqIndex>>
  /\ UNCHANGED <<variant, orders, pc, req, orderVars, disk, boot, searchVars,
                 replyVars, prev, fnVars, logVars>>

\* await fetchGraphQL(...) of getAllProducts settles (lines 786-794): a page
\* with data, an answer without data, or a rejection. After the last page
\* the product loop starts, or ends at once when there is no product.
PageResolves(c) ==
  /\ loads[c].pc = "fetch"
  /\ \E o \in {"page", "nodata", "reject"}, writeOk \in BOOLEAN :
       LET n == loads[c].fetches
           products == IF o = "page" THEN loads[c].products \o pageOf(n)
                       ELSE loads[c].products
           after == afterProducts(variant, aiIndex, disk, faqIndex, writeOk)
       IN IF o = "reject" \/ (o = "nodata" /\ variant # "master")
          THEN /\ loads' = [loads EXCEPT ![c].pc = "failed"]
               /\ UNCHANGED <<faqIndex, disk>>
          ELSE IF o = "page" /\ hasNextPage(n)
          THEN /\ loads' = [loads EXCEPT ![c].products = products,
                                         ![c].fetches = n + 1]
               /\ UNCHANGED <<faqIndex, disk>>
          ELSE IF products # <<>>
          THEN /\ loads' = [loads EXCEPT ![c].products = products,
                                         ![c].pc = "embed", ![c].k = 1]
               /\ UNCHANGED <<faqIndex, disk>>
          ELSE /\ loads' = [loads EXCEPT ![c].products = products,
                                         ![c].pc = after.pc, ![c].k = after.k]
               /\ faqIndex' = after.faqIndex /\ disk' = after.disk
  /\ UNCHANGED <<variant, orders, pc, req, orderVars, aiIndex, boot, searchVars,
                 replyVars, prev, fnVars, logVars>>

\* await openai.embeddings.create(...) of the product loop settles (line
\* 881): the product is pushed; after the last one the snapshot is written
ProductEmbedded(c) ==
  /\ loads[c].pc = "embed"
  /\ \E ok \in BOOLEAN, writeOk \in BOOLEAN :
       LET k == loads[c].k
           idx == Append(aiIndex, loads[c].products[k])
           after == afterProducts(variant, idx, disk, faqIndex, writeOk)
       IN IF ~ok
          THEN /\ loads' = [loads EXCEPT ![c].pc = "failed"]
               /\ UNCHANGED <<aiIndex, faqIndex, disk>>
          ELSE /\ aiIndex' = idx
               /\ IF k < Len(loads[c].products)
                  THEN /\ loads' = [loads EXCEPT ![c].k = k + 1]
                       /\ UNCHANGED <<faqIndex, disk>>
                  ELSE /\ loads' = [loads EXCEPT ![c].pc = after.pc, ![c].k = after.k]
                       /\ faqIndex' = after.faqIndex /\ disk' = after.disk
  /\ UNCHANGED <<variant, orders, pc, req, orderVars, boot, searchVars,
                 replyVars, prev, fnVars, logVars>>

\* await openai.embeddings.create(...) of the FAQ loop settles (line 886)
FaqEmbedded(c) ==
  /\ loads[c].pc = "faqEmbed"
  /\ \E ok \in BOOLEAN :
       IF ~ok
       THEN /\ loads' = [loads EXCEPT ![c].pc = "failed"]
            /\ UNCHANGED faqIndex
       ELSE /\ faqIndex' = Append(faqIndex, LoadFaqs[loads[c].k])
            /\ loads' = IF loads[c].k < Len(LoadFaqs)
                        THEN [loads EXCEPT ![c].k = loads[c].k + 1]
                        ELSE [loads EXCEPT ![c].pc = "done"]
  /\ UNCHANGED <<variant, orders, pc, req, orderVars, aiIndex, disk, boot,
                 searchVars, replyVars, prev, fnVars, logVars>>

\* the load of app.listen has ended: the server goes on either way
StartupEnds ==
  /\ boot = "starting" /\ loads["startup"].pc \in {"done", "failed"}
  /\ boot' = "up"
  /\ UNCHANGED <<variant, orders, pc, req, orderVars, aiIndex, faqIndex, disk,
                 searchVars, replyVars, prev, fnVars, loads, logVars>>

\* the handler goes on after line 934 (or answers 500 when loadIndexes
\* rejected) and returns; its caller name is free for the next request
RequestReturns(c) ==
  /\ c # "startup" /\ loads[c].pc \in {"skipped", "done", "failed"}
  /\ loads' = [loads EXCEPT ![c] = NoLoad]
  /\ UNCHANGED <<variant, orders, pc, req, orderVars, indexVars, searchVars,
                 replyVars, prev, fnVars, logVars>>

LoadVariants == {"master", "older"}

InitLoad ==
  /\ variant \in LoadVariants
  /\ orders = {}
  /\ pc = "idle"
  /\ HandlerIdle
  /\ aiIndex = <<>> /\ faqIndex = <<>> /\ disk \in LoadDisks /\ boot = "starting"
  /\ fnIn = NoFn /\ fnOut = NoLookup

\* one request in flight next to the load of app.listen
LoadCallers == {"startup", "request1"}

NextLoad ==
  \/ StartupBegins
  \/ StartupEnds
  \/ \E c \in LoadCallers :
       \/ EnsureLoaded(c)
       \/ PageResolves(c)
       \/ ProductEmbedded(c)
       \/ FaqEmbedded(c)
       \/ RequestReturns(c)

SpecLoad == InitLoad /\ [][NextLoad]_vars

----------------------------------------------------------------------------
(* Several requests next to the load of app.listen: SpecRace *)
(* The master program with no snapshot and no FAQ file on disk, so the     *)
(* FAQ part of loadIndexes has nothing to await.                           *)

InitRace ==
  /\ variant = "master"
  /\ orders = {}
  /\ pc = "idle"
  /\ HandlerIdle
  /\ aiIndex = <<>> /\ faqIndex = <<>> /\ disk = NoDisk /\ boot = "starting"
  /\ fnIn = NoFn /\ fnOut = NoLookup

NextRace ==
  \/ StartupBegins
  \/ StartupEnds
  \/ \E c \in Callers :
       \/ EnsureLoaded(c)
       \/ PageResolves(c)
       \/ ProductEmbedded(c)
       \/ RequestReturns(c)

SpecRace == InitRace /\ [][NextRace]_vars

Ids(idx) == {idx[i].id : i \in DOMAIN idx}

\* C15: no two records of the product index have the same identifier
C15_UniqueIds == \A i, j \in DOMAIN aiIndex : aiIndex[i].id = aiIndex[j].id => i = j

\* the index holds a record of each product twice or more after two loads
\* ran side by side
C15_Duplicated ==
  /\ Len(aiIndex) > LoadCatalogSize
  /\ \A c \in Callers : loads[c].pc \in {"none", "done", "skipped"}

----------------------------------------------------------------------------
(* Claims about loadIndexes: SpecLoad *)

Requests == Callers \ {"startup"}

\* C16: a handler that reaches the test of line 934 with a product index
\* that is not empty does not call loadIndexes: it makes no catalog call and
\* the product index, the FAQ index and the snapshot stay as they are,
\* however often this happens
C16_EnsureLoadedIdempotent ==
  [][\A c \in Requests :
       (loads[c].pc = "none" /\ loads'[c].pc # "none" /\ aiIndex # <<>>)
         => /\ loads'[c] = [NoLoad EXCEPT !.pc = "skipped"]
            /\ aiIndex' = aiIndex /\ faqIndex' = faqIndex /\ disk' = disk]_vars

\* the load of app.listen has completed with products in the index and a
\* handler has passed line 934 without loading
C16_Witness ==
  /\ loads["startup"].pc = "done" /\ boot = "up"
  /\ aiIndex # <<>>
  /\ loads["request1"].pc = "skipped"

\* the snapshot cannot be used: absent, unreadable, not JSON, or empty
SnapshotFails ==
  \/ disk.index \in {"absent", "unreadable", "corrupt"}
  \/ disk.index = "written" /\ disk.items = <<>>

\* C17: with a snapshot that cannot be used the load of app.listen goes to
\* the catalog; and a step that pushed the last product does not fail,
\* whatever happens to the snapshot write (the FAQ file being readable)
C17_SnapshotFailuresHarmless ==
  [][/\ (loads["startup"].pc = "none" /\ loads'["startup"].pc # "none" /\ SnapshotFails)
          => loads'["startup"].pc = "fetch"
     /\ \A c \in Callers :
          (loads[c].pc = "embed" /\ aiIndex' # aiIndex /\ disk.faq # "corrupt")
            => loads'[c].pc # "failed"]_vars

\* the same for the master program alone
C17_MasterSnapshotFailuresHarmless ==
  [][variant = "master" =>
       /\ (loads["startup"].pc = "none" /\ loads'["startup"].pc # "none" /\ SnapshotFails)
            => loads'["startup"].pc = "fetch"
       /\ \A c \in Callers :
            (loads[c].pc = "embed" /\ aiIndex' # aiIndex /\ disk.faq # "corrupt")
            => loads'[c].pc # "failed"]_vars

\* the step in which a page fetch of caller c fails: the fetch settles and
\* brings no product
PageFetchFails(c) ==
  /\ loads[c].pc = "fetch" /\ loads'[c] # loads[c]
  /\ loads'[c].products = loads[c].products

\* C18: when a page fetch fails the load does not abort: the products of
\* the pages fetched before are kept and go on to be indexed
C18_PageFailureKeepsPages ==
  [][\A c \in Callers :
       PageFetchFails(c)
         => /\ loads'[c].pc # "failed"
            /\ loads[c].products # <<>> => loads'[c].pc = "embed"]_vars

\* the same for an answer without data on the master program, the one
\* failure getAllProducts tests for (line 787)
C18_MasterNoDataKeepsPages ==
  [][\A c \in Callers :
       (variant = "master" /\ PageFetchFails(c) /\ loads'[c].pc # "failed")
         => (loads[c].products # <<>> => loads'[c].pc = "embed")]_vars

\* the pages getAllProducts of caller c has received
PagesReceived(c) == (Len(loads[c].products) + LoadPageSize - 1) \div LoadPageSize

\* C19: a catalog call is reported as failed only after it was tried again:
\* more calls were made than pages were received plus the one that fails
C19_FailedOnlyAfterRetries ==
  [][\A c \in Callers :
       (loads[c].pc = "fetch" /\ loads'[c].pc = "failed")
         => loads[c].fetches > PagesReceived(c) + 1]_vars

----------------------------------------------------------------------------
(* A request without query text: SpecOrder *)

WithoutQuery(r) == r # NoReq /\ r.q = <<>>

\* C20: a request without query text goes from its arrival straight to the
\* 400 response: in no step of it is there an order lookup, a completion or
\* embedding result, a change of the indexes or the snapshot, or a new
\* conversation upsert
C20_MissingQueryRejectedFirst ==
  [][WithoutQuery(req')
       => /\ pc' = "done" /\ response' = BadRequest
          /\ lookup' = NoLookup /\ orderData' = NoOrderData
          /\ optimizedQuery' = NoQuery /\ searchResults' = <<>>
          /\ context' = NoContext /\ aiContent' = NoContent
          /\ aiIndex' = aiIndex /\ faqIndex' = faqIndex /\ disk' = disk
          /\ (upsert' = upsert \/ upsert.state = "pending")]_vars

\* a request without query text whose history names an order and an email
\* has been answered with 400
C20_Witness ==
  /\ WithoutQuery(req) /\ pc = "done" /\ response = BadRequest
  /\ req.hasHistory
  /\ emailMatchOf(req) # NoMatch /\ orderMatchOf(req) # NoMatch

----------------------------------------------------------------------------
(* The conversation upsert and the response: SpecReply *)

\* C21: the success response is sent in the step that starts the upsert,
\* while the upsert is pending; the step in which the upsert settles, with
\* either outcome, changes neither the response nor the position of the
\* handler; and the handler reaches the completion call only with the
\* prompt built and answers 200 only with the generation output parsed
C21_ResponseBeforeUpsertSettles ==
  [][/\ (response' # response /\ response'.status = 200)
          => (upsert'.state = "pending" /\ aiContent' # NoContent)
     /\ (upsert.state = "pending" /\ upsert'.state \in {"stored", "failed"})
          => (response' = response /\ pc' = pc)
     /\ (pc # "complete" /\ pc' = "complete")
          => (context' # NoContext /\ optimizedQuery'.text # <<>>)]_vars

\* the request was answered with 200 and the upsert has failed since
C21_Witness ==
  /\ pc = "done" /\ response.status = 200
  /\ upsert.state = "failed"

----------------------------------------------------------------------------
(* The manual log endpoint, app.post("/api/chat/log"): SpecLog *)
(* Two callers post turns for the same session while a search request of   *)
(* another session is handled. A turn is named by its caller and the count *)
(* of the caller's requests.                                               *)

MaxLogs == 2                         \* requests of one log caller

LogSuccess == [status |-> 200]

\* what the select answers: the row, no row (data null), an error in the
\* result (data null), or a rejected promise
ReadOutcomes == {"row", "norow", "error", "reject"}

\* what the upsert answers: stored, an error in the result, or a rejected
\* promise
WriteOutcomes == {"stored", "error", "reject"}

\* session && session.conversation ? session.conversation : [] (line 1065)
historyOf(o, session) ==
  IF o = "row" /\ session.exists THEN session.conversation ELSE <<>>

\* a wrong handler: the error of the upsert is dropped
logResponseAlwaysSuccess(o) == LogSuccess

\* `if (error) throw error; res.json({ success: true })` and the catch
\* (lines 1068-1070)
logResponse(o) == IF o = "stored" THEN LogSuccess ELSE InternalError

\* the row after upsert({ session_id, conversation: history, ... }) (line
\* 1067): the conversation is replaced by the list the handler holds
stored(history, session) == [exists |-> TRUE, conversation |-> history]

\* The request arrives: validation (line 1061) and the select call. A body
\* that lacks a field is answered with 400.
LogReceive(c) ==
  /\ logs[c].pc = "none" /\ logs[c].n < MaxLogs
  /\ \E complete \in BOOLEAN :
       logs' = [logs EXCEPT ![c] =
                  IF complete
                  THEN [NoLog EXCEPT !.pc = "read", !.n = logs[c].n + 1]
                  ELSE [NoLog EXCEPT !.pc = "done", !.n = logs[c].n,
                                     !.response = BadRequest]]
  /\ UNCHANGED <<variant, orders, pc, req, orderVars, indexVars, searchVars,
                 replyVars, prev, fnVars, loads, sessions>>

\* await supabase...select('conversation')...single() settles (line 1064);
\* the turn is pushed and the upsert call is made (lines 1065-1067)
LogReadResolves(c) ==
  /\ logs[c].pc = "read"
  /\ \E o \in ReadOutcomes :
       /\ o = "row" => sessions.exists
       /\ o = "norow" => ~sessions.exists
       /\ logs' = [logs EXCEPT ![c] =
                     IF o = "reject"
                     THEN [@ EXCEPT !.pc = "done", !.read = o,
                                    !.response = InternalError]
                     ELSE [@ EXCEPT !.pc = "write", !.read = o,
                                    !.history = Append(historyOf(o, sessions),
                                                       <<c, logs[c].n>>)]]
  /\ UNCHANGED <<variant, orders, pc, req, orderVars, indexVars, searchVars,
                 replyVars, prev, fnVars, loads, sessions>>

\* await supabase...upsert(...) settles (lines 1067-1070)
LogWriteResolves(c) ==
  /\ logs[c].pc = "write"
  /\ \E o \in WriteOutcomes :
       /\ sessions' = IF o = "stored" THEN stored(logs[c].history, sessions)
                      ELSE sessions
       /\ logs' = [logs EXCEPT ![c].pc = "done", ![c].write = o,
                               ![c].response = logResponse(o)]
  /\ UNCHANGED <<variant, orders, pc, req, orderVars, indexVars, searchVars,
                 replyVars, prev, fnVars, loads>>

\* the caller has its answer and may post again
LogReturns(c) ==
  /\ logs[c].pc = "done" /\ logs[c].n < MaxLogs
  /\ logs' = [logs EXCEPT ![c] = [NoLog EXCEPT !.n = logs[c].n]]
  /\ UNCHANGED <<variant, orders, pc, req, orderVars, indexVars, searchVars,
                 replyVars, prev, fnVars, loads, sessions>>

InitLog ==
  /\ variant = "master"
  /\ orders = {}
  /\ pc = "idle"
  /\ HandlerIdle /\ Loaded
  /\ fnIn = NoFn /\ fnOut = NoLookup

\* one search request of another session, with one input of each kind
ReceiveLog == Receive({<<Word(NoMatch, NoMatch)>>}, {NoHistory}, {NoVisible})
CompletionLog ==
  CompletionResolves({Content(<<LB, ReplyTok(FALSE),
                                ProductsTok([k |-> "list", items |-> <<>>]), RB>>)})

NextLog ==
  \/ ReceiveLog
  \/ RefineOrder
  \/ EmbedOrder
  \/ LiveStockOrder
  \/ CompletionLog
  \/ UpsertSettles
  \/ \E c \in LogCallers :
       \/ LogReceive(c)
       \/ LogReadResolves(c)
       \/ LogWriteResolves(c)
       \/ LogReturns(c)

SpecLog == InitLog /\ [][NextLog]_vars

\* a log request that has been answered after its validation
LogAnswered(c) == logs[c].pc = "done" /\ logs[c].response # BadRequest

PersistenceFailed(c) ==
  logs[c].read \in {"error", "reject"} \/ logs[c].write \in {"error", "reject"}

\* C22 as claimed: no failure of the persistence collaborator gives an error
\* response, on the search endpoint or on the log endpoint
C22_NoPersistenceErrorSurfaced ==
  /\ (upsert.state = "failed" /\ pc = "done") => response.status = 200
  /\ \A c \in LogCallers :
       (LogAnswered(c) /\ PersistenceFailed(c)) => logs[c].response # InternalError

\* C22 as amended: the search endpoint never answers with an error because
\* of its upsert; the log endpoint answers 500 exactly when its read rejects
\* or its upsert fails, and answers success after a read that gave an error
\* in its result
C22_OnlyLogEndpointSurfaces ==
  /\ (upsert.state = "failed" /\ pc = "done") => response.status = 200
  /\ \A c \in LogCallers :
       LogAnswered(c)
         => /\ logs[c].response = InternalError
                 <=> (logs[c].read = "reject" \/ logs[c].write \in {"error", "reject"})
            /\ logs[c].response = LogSuccess <=> logs[c].write = "stored"

\* the upsert of an answered search request has failed, one log request got
\* 500 for its failed upsert and one got success after a failed read
C22_Witness ==
  /\ upsert.state = "failed" /\ pc = "done" /\ response.status = 200
  /\ logs["log1"].pc = "done" /\ logs["log1"].write = "error"
  /\ logs["log1"].response = InternalError
  /\ logs["log2"].pc = "done" /\ logs["log2"].read = "error"
  /\ logs["log2"].response = LogSuccess

TurnsOf(session) == {session.conversation[i] : i \in DOMAIN session.conversation}

\* C29: the turn of every log request that was answered with success is in
\* the stored conversation
C29_NoLostTurn ==
  \A c \in LogCallers :
    (logs[c].pc = "done" /\ logs[c].response = LogSuccess)
      => <<c, logs[c].n>> \in TurnsOf(sessions)

----------------------------------------------------------------------------
(* The missing-piece signal: SpecOrder *)

\* an email, an order id stands somewhere in the message or the history
EmailPresent(r) == \E w \in WordsOf(r) : w.email # NoMatch
OrderIdPresent(r) == \E w \in WordsOf(r) : w.digits # NoMatch

\* the signal the claim expects for a request
ExpectedSignal(r) ==
  IF OrderIdPresent(r) /\ ~EmailPresent(r) THEN "FALTA_EMAIL"
  ELSE IF EmailPresent(r) /\ ~OrderIdPresent(r) THEN "FALTA_PEDIDO_ID"
  ELSE NullStr

\* C23: on the master program, while a request with query text is handled,
\* the signal is missing-email when only an order id is present,
\* missing-order-id when only an email is present and unset otherwise; with
\* exactly one piece no order lookup is made; and the DATOS field of the
\* prompt carries the signal (OK when there is none)
C23_MissingPieceSignal ==
  (variant = "master" /\ req # NoReq /\ ~missingQuery(req.q))
    => /\ securityWarning = ExpectedSignal(req)
       /\ (EmailPresent(req) # OrderIdPresent(req))
            => (lookup = NoLookup /\ orderData = NoOrderData /\ pc # "order")
       /\ context # NoContext
            => context.datos = IF ExpectedSignal(req) = NullStr THEN "OK"
                               ELSE ExpectedSignal(req)

\* a request that names an order id and no email has reached the
\* completion call with the missing-email signal in its prompt
C23_Witness ==
  /\ variant = "master" /\ pc = "complete"
  /\ OrderIdPresent(req) /\ ~EmailPresent(req)
  /\ context.datos = "FALTA_EMAIL"

----------------------------------------------------------------------------
(* Requests that arrive during a load: SpecRace *)

\* a loadIndexes call is inside its product loop, between two pushes
Building(c) == loads[c].pc = "embed"

\* C24: no handler passes line 934 and goes on to rank while a load is
\* still building the product index
C24_NoRankDuringBuild ==
  \A c \in Requests :
    loads[c].pc = "skipped" => \A d \in Callers : ~Building(d)

----------------------------------------------------------------------------
(* Where the order id and the email come from: SpecDetect *)

MaxTurns == 2                       \* turns of a history of SpecDetect

DetectWords ==
  {Word(UserEmailA, NoMatch), Word(UserEmailB, NoMatch), Word(NoMatch, Id1),
   Word(NoMatch, Id2), Word(NoMatch, NoMatch)}

DetectQs == SeqsUpTo(DetectWords, 1)

DetectTurns ==
  {[content |-> <<w>>] : w \in DetectWords}
  \cup {[content |-> <<Word(UserEmailA, NoMatch), Word(UserEmailB, NoMatch)>>],
        [content |-> <<Word(NoMatch, Id2), Word(NoMatch, Id1)>>],
        [content |-> <<Word(NoMatch, Id1), Word(UserEmailB, NoMatch)>>]}

DetectRequests ==
  {[q |-> q, hasHistory |-> FALSE, history |-> <<>>] : q \in DetectQs}
  \cup {[q |-> q, hasHistory |-> TRUE, history |-> h] :
          q \in DetectQs, h \in SeqsUpTo(DetectTurns, MaxTurns)}

InitDetect ==
  /\ variant = "master"
  /\ orders = {}
  /\ pc = "fn"
  /\ HandlerIdle /\ IndexEmpty
  /\ \E r \in DetectRequests : fnIn = [op |-> "detect", r |-> r]
  /\ fnOut = NoLookup

\* lines 919-924 of the search handler
Detect ==
  /\ pc = "fn" /\ fnIn.op = "detect"
  /\ fnOut' = [emailMatch |-> emailMatchOf(fnIn.r), orderMatch |-> orderMatchOf(fnIn.r)]
  /\ pc' = "fn_done"
  /\ UNCHANGED <<variant, orders, req, orderVars, indexVars, searchVars,
                 replyVars, prev, fnIn, loads, logVars>>

NextDetect == Detect

SpecDetect == InitDetect /\ [][NextDetect]_vars

Detected == pc = "fn_done" /\ fnIn.op = "detect"

\* the turns of a history that hold an email, an order id
EmailTurns(h) == {j \in 1..Len(h) : firstEmail(h[j].content) # NoMatch}
DigitTurns(h) == {j \in 1..Len(h) : firstDigits(h[j].content) # NoMatch}

Latest(S) == CHOOSE j \in S : \A k \in S : k <= j

\* C25: a piece found in the message is the one used; the history supplies
\* only a piece the message lacks, and then the most recent turn that holds
\* one supplies it
C25_MessageFirstThenLatestTurn ==
  Detected =>
    LET r == fnIn.r
    IN /\ firstEmail(r.q) # NoMatch => fnOut.emailMatch = firstEmail(r.q)
       /\ firstDigits(r.q) # NoMatch => fnOut.orderMatch = firstDigits(r.q)
       /\ firstEmail(r.q) = NoMatch =>
            fnOut.emailMatch =
              IF EmailTurns(r.history) = {} THEN NoMatch
              ELSE firstEmail(r.history[Latest(EmailTurns(r.history))].content)
       /\ firstDigits(r.q) = NoMatch =>
            fnOut.orderMatch =
              IF DigitTurns(r.history) = {} THEN NoMatch
              ELSE firstDigits(r.history[Latest(DigitTurns(r.history))].content)

\* the message names an order id that differs from the history's, and two
\* turns of the history name different emails: the message's id and the
\* later turn's email are used
C25_Witness ==
  /\ Detected
  /\ fnIn.r.q = <<Word(NoMatch, Id2)>>
  /\ Len(fnIn.r.history) = 2
  /\ fnIn.r.history[1].content = <<Word(UserEmailA, NoMatch)>>
  /\ fnIn.r.history[2].content = <<Word(NoMatch, Id1), Word(UserEmailB, NoMatch)>>
  /\ fnOut = [emailMatch |-> UserEmailB, orderMatch |-> Id2]

----------------------------------------------------------------------------
(* Full expansion from a synonym: SpecNormalize *)

\* C26: a query in which a synonym of a concept stands between spaces is
\* expanded with the canonical term and with every synonym of the concept,
\* as a query that names the canonical term is
C26_SynonymFullExpansion ==
  Normalized =>
    \A k \in DOMAIN CONCEPTS :
      LET concept == CONCEPTS[k]
          query == toLowerCase(fnIn.query)
      IN (\E syn \in Synonyms(concept) : HasSpacedWord(query, syn))
           => /\ includes(fnOut, concept.canonical)
              /\ \A syn \in Synonyms(concept) : includes(fnOut, syn)

----------------------------------------------------------------------------
(* Carrier and tracking fields of a found order: SpecCarrier *)

UpstreamUrl == [base |-> "upstream", arg |-> "u1"]

CarrierTrackings ==
  [number : {NullStr, "T1", "T2"}, url : {NullUrl, UpstreamUrl},
   company : {NullStr, "0002", "0003", "SEUR"}]

CarrierOrders ==
  {[name |-> <<"#">> \o Id1, email |-> <<"a", "b">>, status |-> st,
    tracking |-> t, items |-> "1x Naluns", price |-> "59.95"] :
     st \in {"UNFULFILLED", "FULFILLED"}, t \in CarrierTrackings}

InitCarrier ==
  /\ variant = "master"
  /\ pc = "fn"
  /\ HandlerIdle /\ IndexEmpty
  /\ \E o \in CarrierOrders : orders = {o}
  /\ \E net \in NetOutcomes :
       fnIn = [op |-> "getOrderStatus", orderId |-> Id1, userEmail |-> <<"a", "b">>,
               net |-> net]
  /\ fnOut = NoLookup

NextCarrier == CallGetOrderStatus

SpecCarrier == InitCarrier /\ [][NextCarrier]_vars

\* the order the lookup found
FoundOrder == CHOOSE o \in orders : TRUE

Found == pc = "fn_done" /\ fnIn.op = "getOrderStatus" /\ fnOut.found

DhlUrl(number) == [base |-> "dhl", arg |-> number]

\* the parts of the mapping that do not concern the URL of carrier 0003
OtherCarrierFields ==
  LET t == FoundOrder.tracking
      d == fnOut.data
  IN /\ t.company = "0002" => d.carrier = "Correos Express"
     /\ t.company = "0003" => d.carrier = "DHL"
     /\ t.company # "0003" => d.trackingUrl = t.url
     /\ (FoundOrder.status = "UNFULFILLED" /\ t = NoTracking)
          => d.carrier = "Pendiente" /\ d.trackingNumber = "N/A"

\* C27 as stated: for carrier 0003 the tracking URL is the DHL URL of the
\* tracking number, whatever the upstream URL
C27_CarrierMapping ==
  Found =>
    /\ OtherCarrierFields
    /\ FoundOrder.tracking.company = "0003"
         => fnOut.data.trackingUrl = DhlUrl(FoundOrder.tracking.number)

\* C27, amended: for carrier 0003 with a tracking number the tracking URL is
\* the DHL URL of that number, whatever the upstream URL; for carrier 0003
\* without a tracking number the upstream URL is passed through
C27_CarrierMappingWithNumber ==
  Found =>
    /\ OtherCarrierFields
    /\ FoundOrder.tracking.company = "0003"
         => fnOut.data.trackingUrl =
              IF FoundOrder.tracking.number # NullStr
              THEN DhlUrl(FoundOrder.tracking.number)
              ELSE FoundOrder.tracking.url

\* an order of carrier 0003 with a number and an upstream URL was found and
\* reported with the DHL URL
C27_Witness ==
  /\ Found
  /\ FoundOrder.tracking = [number |-> "T2", url |-> UpstreamUrl, company |-> "0003"]
  /\ fnOut.data.trackingUrl = DhlUrl("T2")
  /\ fnOut.data.carrier = "DHL"

----------------------------------------------------------------------------
(* The stock summary of a product: SpecStock *)

\* A variant of the summary carries the values of its colour and size
\* options (NullStr when the option is missing), its quantity and its
\* availability. A summary is a sequence of lines; a line names a colour,
\* its sizes, and whether it says sold out; a size entry carries the
\* almost-gone mark and the quantity printed with it (NoQty when none is).
NoQty == "none"

StockLine(color, sizes, soldOut) == [color |-> color, sizes |-> sizes, soldOut |-> soldOut]

inStock(v) == v.availableForSale /\ v.inventoryQuantity > 0

colorOf(v) == IF v.color # NullStr THEN v.color ELSE "Único"
sizeOf(v) == IF v.size # NullStr THEN v.size ELSE "Única"

\* the keys of the object stock in insertion order
RECURSIVE stockKeys(_, _)
stockKeys(variants, seen) ==
  IF variants = <<>> THEN <<>>
  ELSE LET v == Head(variants) IN
       IF inStock(v) /\ colorOf(v) \notin seen
       THEN <<colorOf(v)>> \o stockKeys(Tail(variants), seen \cup {colorOf(v)})
       ELSE stockKeys(Tail(variants), seen)

\* stock[color]: the entries pushed for the colour, in variant order
RECURSIVE stockOf(_, _)
stockOf(variants, color) ==
  IF variants = <<>> THEN <<>>
  ELSE LET v == Head(variants) IN
       IF inStock(v) /\ colorOf(v) = color
       THEN <<[size |-> sizeOf(v), mark |-> v.inventoryQuantity <= 2, qty |-> NoQty]>>
            \o stockOf(Tail(variants), color)
       ELSE stockOf(Tail(variants), color)

\* formatStockForAI, master (lines 896-908)
formatStockMaster(variants) ==
  IF Len(variants) = 0 THEN [kind |-> "Sin info stock.", lines |-> <<>>]
  ELSE LET keys == stockKeys(variants, {}) IN
       IF keys = <<>> THEN [kind |-> "Agotado", lines |-> <<>>]
       ELSE [kind |-> "lines",
             lines |-> [i \in 1..Len(keys) |->
                          StockLine(keys[i], stockOf(variants, keys[i]), FALSE)]]

\* formatStockForAI, earlier variant (lines 431-467): one line per variant
formatStockEarlier(variants) ==
  IF Len(variants) = 0 THEN [kind |-> "Sin información de stock.", lines |-> <<>>]
  ELSE [kind |-> "lines",
        lines |-> [i \in 1..Len(variants) |->
                     LET v == variants[i] IN
                     IF inStock(v)
                     THEN StockLine(v.color,
                                    <<[size |-> v.size, mark |-> v.inventoryQuantity <= 2,
                                       qty |-> v.inventoryQuantity]>>, FALSE)
                     ELSE StockLine(v.color, <<>>, TRUE)]]

formatStockForAI(v, variants) ==
  IF v = "master" THEN formatStockMaster(variants) ELSE formatStockEarlier(variants)

MaxStockVariants == 2               \* variants of a product of SpecStock

StockVariants ==
  [color : {"Rojo", "Azul"}, size : {"M", "L"}, inventoryQuantity : {0, 1, 2, 3},
   availableForSale : BOOLEAN]

InitStock ==
  /\ variant \in {"master", "earlier"}
  /\ orders = {}
  /\ pc = "fn"
  /\ HandlerIdle /\ IndexEmpty
  /\ \E vs \in SeqsUpTo(StockVariants, MaxStockVariants) :
       fnIn = [op |-> "formatStockForAI", variants |-> vs]
  /\ fnOut = NoLookup

CallFormatStock ==
  /\ pc = "fn" /\ fnIn.op = "formatStockForAI"
  /\ fnOut' = formatStockForAI(variant, fnIn.variants)
  /\ pc' = "fn_done"
  /\ UNCHANGED <<variant, orders, req, orderVars, indexVars, searchVars,
                 replyVars, prev, fnIn, loads, logVars>>

NextStock == CallFormatStock

SpecStock == InitStock /\ [][NextStock]_vars

Formatted == pc = "fn_done" /\ fnIn.op = "formatStockForAI"

\* the colours of the product, and the sizes of a colour that can be bought
ColorsOf(variants) == {variants[i].color : i \in DOMAIN variants}
AvailableSizes(variants, color) ==
  {variants[i].size : i \in {j \in DOMAIN variants :
                               variants[j].color = color /\ inStock(variants[j])}}
AlmostGone(variants, color, size) ==
  \E i \in DOMAIN variants :
    /\ variants[i].color = color /\ variants[i].size = size /\ inStock(variants[i])
    /\ variants[i].inventoryQuantity <= 2

\* the size entries the summary gives for a colour, over all its lines
EntriesOf(out, color) ==
  UNION {Range(out.lines[i].sizes) : i \in {j \in DOMAIN out.lines :
                                             out.lines[j].color = color}}

\* C28: for each colour the summary lists exactly the sizes that can be
\* bought, marks a size as almost gone only if a variant of it has quantity
\* 2 or less, reports every colour without such a size as sold out, and
\* prints no quantity
C28_StockSummary ==
  (Formatted /\ fnIn.variants # <<>>) =>
    /\ \A color \in ColorsOf(fnIn.variants) :
         /\ {e.size : e \in EntriesOf(fnOut, color)} = AvailableSizes(fnIn.variants, color)
         /\ \A e \in EntriesOf(fnOut, color) :
              e.mark => AlmostGone(fnIn.variants, color, e.size)
         /\ AvailableSizes(fnIn.variants, color) = {}
              => \/ fnOut.kind = "Agotado"
                 \/ \E i \in DOMAIN fnOut.lines :
                      fnOut.lines[i].color = color /\ fnOut.lines[i].soldOut
    /\ \A i \in DOMAIN fnOut.lines :
         \A e \in Range(fnOut.lines[i].sizes) : e.qty = NoQty

\* the same statement of the master program alone
C28_MasterStockSummary == variant = "master" => C28_StockSummary

----------------------------------------------------------------------------
(* The live stock refresh as a function: SpecRefresh *)

MaxRefresh == 2                     \* products of a list to refresh
RefreshIds == 1..4

RefreshLists == SeqsUpTo({Product(i) : i \in RefreshIds}, MaxRefresh)

InitRefresh ==
  /\ variant = "master"
  /\ orders = {}
  /\ pc = "fn"
  /\ HandlerIdle /\ IndexEmpty
  /\ \E products \in RefreshLists, o \in StockOutcomes :
       fnIn = [op |-> "getLiveStockForProducts", products |-> products, o |-> o]
  /\ fnOut = NoLookup

CallGetLiveStock ==
  /\ pc = "fn" /\ fnIn.op = "getLiveStockForProducts"
  /\ fnOut' = getLiveStockForProducts(fnIn.products, fnIn.o)
  /\ pc' = "fn_done"
  /\ UNCHANGED <<variant, orders, req, orderVars, indexVars, searchVars,
                 replyVars, prev, fnIn, loads, logVars>>

NextRefresh == CallGetLiveStock

SpecRefresh == InitRefresh /\ [][NextRefresh]_vars

Refreshed == pc = "fn_done" /\ fnIn.op = "getLiveStockForProducts"

\* C30: the refreshed list has the length of the input and, position by
\* position, the same product with every field but variants unchanged; a
\* lookup that failed or gave no data returns the input, and a product the
\* lookup has no entry for is returned as it was
C30_RefreshChangesOnlyVariants ==
  Refreshed =>
    LET in == fnIn.products
        out == fnOut
    IN /\ Len(out) = Len(in)
       /\ \A i \in 1..Len(in) :
            /\ DOMAIN out[i] = DOMAIN in[i]
            /\ out[i].id = in[i].id
            /\ \A f \in DOMAIN in[i] \ {"variants"} : out[i][f] = in[i][f]
            /\ ~hasFreshNode(fnIn.o, in[i]) => out[i] = in[i]
       /\ fnIn.o \in {"throw", "nodata"} => out = in

\* a list of two products was refreshed by a lookup that had an entry for
\* the second only: its variants carry the fresh quantity, the first product
\* is as it was
C30_Witness ==
  /\ Refreshed
  /\ fnIn.o = "odd"
  /\ fnIn.products = <<Product(2), Product(3)>>
  /\ fnOut[1] = Product(2)
  /\ fnOut[2].variants # Product(3).variants
  /\ fnOut[2].variants[1].inventoryQuantity = FreshQty

====
